---------------------------- MODULE Spec2Model ----------------------------
(***************************************************************************)
(* A model of the OJS conformance test engine: the step executor           *)
(* (runTest / executeStep), the assertion evaluator (evaluateAssertions,   *)
(* lib.MatchAssertion), the path resolver (lib.ResolveJSONPath), the       *)
(* template resolver (resolveTemplates) and the report aggregator          *)
(* (buildReport), for both runners (runner/http and runner/grpc).          *)
(*                                                                         *)
(* Every Go string (a path, an object key, a string value, a step id, a    *)
(* matcher) is a sequence of one-character strings, so that the code's     *)
(* scanning, prefix tests and conversions are computed, not assumed.       *)
(***************************************************************************)
EXTENDS Integers, Sequences, FiniteSets, TLC

(***************************************************************************)
(* Go values of type `any` as produced by encoding/json.                   *)
(***************************************************************************)
Nil == [t |-> "nil"]
Str(s) == [t |-> "string", s |-> s]
Num(n) == [t |-> "number", n |-> n]
Bool(b) == [t |-> "boolean", b |-> b]
Arr(a) == [t |-> "array", a |-> a]
Obj(o) == [t |-> "object", o |-> o]
\* A nil map[string]any held in an interface value: a type assertion to a map
\* succeeds on it, every key is missing, and it is not equal to nil.
NilMap == [t |-> "object", o |-> <<>>, nilmap |-> TRUE]
\* A nil []any held in an interface value (var results []any, never appended).
NilSlice == [t |-> "array", a |-> <<>>, nilslice |-> TRUE]

IsMap(v) == v.t = "object"
IsArr(v) == v.t = "array"
MapHas(v, k) == IsMap(v) /\ k \in DOMAIN v.o
MapGet(v, k) == IF MapHas(v, k) THEN v.o[k] ELSE Nil

(***************************************************************************)
(* Helpers of package strings / strconv on character sequences.            *)
(***************************************************************************)
Min(S) == CHOOSE x \in S : \A y \in S : x <= y

Take(s, n) == SubSeq(s, 1, n)
Drop(s, n) == SubSeq(s, n + 1, Len(s))

HasPrefix(s, p) == Len(s) >= Len(p) /\ Take(s, Len(p)) = p

Index(s, sub) ==
    LET hits == {i \in 0..(Len(s) - Len(sub)) : SubSeq(s, i + 1, i + Len(sub)) = sub}
    IN IF hits = {} THEN -1 ELSE Min(hits)

TrimPrefix(s, p) == IF HasPrefix(s, p) THEN Drop(s, Len(p)) ELSE s

RECURSIVE TrimLeft(_, _)
TrimLeft(s, cutset) ==
    IF s # <<>> /\ s[1] \in cutset THEN TrimLeft(Tail(s), cutset) ELSE s

RECURSIVE TrimRight(_, _)
TrimRight(s, cutset) ==
    IF s # <<>> /\ s[Len(s)] \in cutset THEN TrimRight(Take(s, Len(s) - 1), cutset) ELSE s

Trim(s, cutset) == TrimRight(TrimLeft(s, cutset), cutset)

RECURSIVE Join(_, _)
Join(segs, sep) ==
    IF segs = <<>> THEN <<>>
    ELSE IF Len(segs) = 1 THEN segs[1]
    ELSE segs[1] \o sep \o Join(Tail(segs), sep)

Digits == <<"0", "1", "2", "3", "4", "5", "6", "7", "8", "9">>
IsDigit(c) == \E d \in 1..10 : Digits[d] = c
DigitVal(c) == (CHOOSE d \in 1..10 : Digits[d] = c) - 1

RECURSIVE DigitsVal(_, _)
DigitsVal(chars, acc) ==
    IF chars = <<>> THEN acc ELSE DigitsVal(Tail(chars), 10 * acc + DigitVal(chars[1]))

\* strconv.Atoi: an optional sign, then one or more decimal digits.
Atoi(chars) ==
    LET signed == chars # <<>> /\ chars[1] \in {"+", "-"}
        body == IF signed THEN Tail(chars) ELSE chars
    IN IF body = <<>> \/ \E i \in 1..Len(body) : ~IsDigit(body[i])
       THEN [ok |-> FALSE, n |-> 0]
       ELSE [ok |-> TRUE,
             n |-> IF signed /\ chars[1] = "-" THEN 0 - DigitsVal(body, 0)
                   ELSE DigitsVal(body, 0)]

\* The decimal digits of a natural number, and of an integer.
RECURSIVE NatChars(_)
NatChars(n) == IF n < 10 THEN <<Digits[n + 1]>> ELSE NatChars(n \div 10) \o <<Digits[(n % 10) + 1]>>

Itoa(n) == IF n < 0 THEN <<"-">> \o NatChars(0 - n) ELSE NatChars(n)

\* The characters of the model in ASCII order, for sorting object keys.
Alphabet ==
    <<"\"", "$", "'", "(", ")", "*", ",", "-", ".", "/",
      "0", "1", "2", "3", "4", "5", "6", "7", "8", "9", ":", "<", "=", ">", "?", "@",
      "[", "]", "_",
      "a", "b", "c", "d", "e", "f", "g", "h", "i", "j", "k", "l", "m",
      "n", "o", "p", "q", "r", "s", "t", "u", "v", "w", "x", "y", "z", "{", "}", "~">>
CharRank(c) == CHOOSE i \in 1..Len(Alphabet) : Alphabet[i] = c

RECURSIVE StrLess(_, _)
StrLess(a, b) ==
    IF b = <<>> THEN FALSE
    ELSE IF a = <<>> THEN TRUE
    ELSE IF a[1] = b[1] THEN StrLess(Tail(a), Tail(b))
    ELSE CharRank(a[1]) < CharRank(b[1])

RECURSIVE SortedKeys(_)
SortedKeys(keys) ==
    IF keys = {} THEN <<>>
    ELSE LET k == CHOOSE a \in keys : \A b \in keys \ {a} : StrLess(a, b)
         IN <<k>> \o SortedKeys(keys \ {k})

\* fmt.Sprintf("%v", v): strings as they are, integral numbers in decimal,
\* booleans, nil as <nil>, a slice as [e1 e2], a map as map[k1:v1 k2:v2]
\* with its keys sorted.
RECURSIVE FmtV(_)
RECURSIVE FmtElems(_)
RECURSIVE FmtFields(_, _)
FmtElems(a) ==
    IF a = <<>> THEN <<>>
    ELSE IF Len(a) = 1 THEN FmtV(a[1])
    ELSE FmtV(a[1]) \o <<" ">> \o FmtElems(Tail(a))
FmtFields(o, keys) ==
    IF keys = <<>> THEN <<>>
    ELSE keys[1] \o <<":">> \o FmtV(o[keys[1]])
         \o (IF Len(keys) = 1 THEN <<>> ELSE <<" ">> \o FmtFields(o, Tail(keys)))
FmtV(v) ==
    CASE v.t = "string" -> v.s
      [] v.t = "number" -> Itoa(v.n)
      [] v.t = "boolean" -> IF v.b THEN <<"t", "r", "u", "e">> ELSE <<"f", "a", "l", "s", "e">>
      [] v.t = "nil" -> <<"<", "n", "i", "l", ">">>
      [] v.t = "array" -> <<"[">> \o FmtElems(v.a) \o <<"]">>
      [] OTHER -> <<"m", "a", "p", "[">> \o FmtFields(v.o, SortedKeys(DOMAIN v.o)) \o <<"]">>

\* json.Marshal(v): null for nil and for a nil slice or map, strings in
\* quotes (the model's strings hold no character that needs escaping),
\* object keys sorted.
RECURSIVE MarshalJSON(_)
RECURSIVE MarshalElems(_)
RECURSIVE MarshalFields(_, _)
MarshalElems(a) ==
    IF a = <<>> THEN <<>>
    ELSE IF Len(a) = 1 THEN MarshalJSON(a[1])
    ELSE MarshalJSON(a[1]) \o <<",">> \o MarshalElems(Tail(a))
MarshalFields(o, keys) ==
    IF keys = <<>> THEN <<>>
    ELSE <<"\"">> \o keys[1] \o <<"\"", ":">> \o MarshalJSON(o[keys[1]])
         \o (IF Len(keys) = 1 THEN <<>> ELSE <<",">> \o MarshalFields(o, Tail(keys)))
MarshalJSON(v) ==
    CASE v.t = "nil" -> <<"n", "u", "l", "l">>
      [] v.t = "string" -> <<"\"">> \o v.s \o <<"\"">>
      [] v.t = "number" -> Itoa(v.n)
      [] v.t = "boolean" -> IF v.b THEN <<"t", "r", "u", "e">> ELSE <<"f", "a", "l", "s", "e">>
      [] v.t = "array" ->
            IF "nilslice" \in DOMAIN v THEN <<"n", "u", "l", "l">>
            ELSE <<"[">> \o MarshalElems(v.a) \o <<"]">>
      [] OTHER ->
            IF "nilmap" \in DOMAIN v THEN <<"n", "u", "l", "l">>
            ELSE <<"{">> \o MarshalFields(v.o, SortedKeys(DOMAIN v.o)) \o <<"}">>

(***************************************************************************)
(* lib.splitJSONPath and lib.ResolveJSONPath.                              *)
(***************************************************************************)
RECURSIVE splitFrom(_, _, _, _, _)
splitFrom(path, i, depth, current, parts) ==
    IF i > Len(path)
    THEN IF Len(current) > 0 THEN Append(parts, current) ELSE parts
    ELSE LET ch == path[i] IN
         IF ch = "[" THEN splitFrom(path, i + 1, depth + 1, Append(current, ch), parts)
         ELSE IF ch = "]" THEN splitFrom(path, i + 1, depth - 1, Append(current, ch), parts)
         ELSE IF ch = "." /\ depth = 0 THEN splitFrom(path, i + 1, depth, <<>>, Append(parts, current))
         ELSE splitFrom(path, i + 1, depth, Append(current, ch), parts)

splitJSONPath(path) == splitFrom(path, 1, 0, <<>>, <<>>)

ResOk(v) == [val |-> v, err |-> FALSE]
ResErr == [val |-> Nil, err |-> TRUE]

FilterOpen == <<"[", "?", "(", "@", ".">>

\* The first element of arr that is an object holding filterKey with a value
\* that prints as filterVal; nil when there is none.
RECURSIVE filterMatch(_, _, _)
filterMatch(arr, filterKey, filterVal) ==
    IF arr = <<>> THEN Nil
    ELSE IF IsMap(arr[1]) /\ MapHas(arr[1], filterKey)
            /\ FmtV(arr[1].o[filterKey]) = filterVal
         THEN arr[1]
         ELSE filterMatch(Tail(arr), filterKey, filterVal)

RECURSIVE ResolveJSONPath(_, _)
RECURSIVE resolveParts(_, _, _)
RECURSIVE resolveFilter(_, _, _, _)
RECURSIVE resolveBrackets(_, _, _, _)
RECURSIVE wildcardCollect(_, _)

\* The loop over parts (part_007:571-712), from part i (1-based) on.
resolveParts(parts, i, current) ==
    IF i > Len(parts) THEN ResOk(current)
    ELSE LET part == parts[i] IN
         IF part = <<>> THEN resolveParts(parts, i + 1, current)
         ELSE LET idx == Index(part, <<"[">>) IN
              IF idx >= 0
              THEN LET field == Take(part, idx)
                       rest == Drop(part, idx)
                   IN IF field # <<>> /\ ~IsMap(current) THEN ResErr
                      ELSE LET cur == IF field # <<>> THEN MapGet(current, field)
                                      ELSE current
                           IN IF HasPrefix(rest, FilterOpen)
                              THEN resolveFilter(parts, i, rest, cur)
                              ELSE resolveBrackets(parts, i, rest, cur)
              ELSE IF ~IsMap(current) THEN ResErr
              ELSE IF ~MapHas(current, part) THEN ResOk(Nil)
              ELSE resolveParts(parts, i + 1, current.o[part])

\* The filter branch [?(@.key=='value')] (part_007:591-640).
resolveFilter(parts, i, rest, current) ==
    LET closeBracket == Index(rest, <<")", "]">>) IN
    IF closeBracket < 0 THEN ResErr
    ELSE LET filterExpr == SubSeq(rest, 6, closeBracket)
             rest2 == Drop(rest, closeBracket + 2)
             eqIdx == Index(filterExpr, <<"=", "=">>)
         IN IF eqIdx < 0 THEN ResErr
            ELSE LET filterKey == Take(filterExpr, eqIdx)
                     filterVal == Trim(Drop(filterExpr, eqIdx + 2), {"'", "\""})
                 IN IF ~IsArr(current) THEN ResErr
                    ELSE LET matched == filterMatch(current.a, filterKey, filterVal)
                         IN IF rest2 # <<>> /\ matched # Nil /\ HasPrefix(rest2, <<".">>)
                            THEN ResolveJSONPath(Drop(rest2, 1), matched)
                            ELSE resolveParts(parts, i + 1, matched)

\* The values the remaining path projects out of the elements of a wildcard.
wildcardCollect(arr, remainingPath) ==
    IF arr = <<>> THEN <<>>
    ELSE LET r == IF remainingPath = <<>> THEN ResOk(arr[1])
                  ELSE ResolveJSONPath(remainingPath, arr[1])
             keep == remainingPath = <<>> \/ (~r.err /\ r.val # Nil)
         IN (IF keep THEN <<r.val>> ELSE <<>>) \o wildcardCollect(Tail(arr), remainingPath)

\* The loop over chained brackets [0][1] and the wildcard [*] (part_007:643-699).
resolveBrackets(parts, i, rest, current) ==
    IF rest = <<>> THEN resolveParts(parts, i + 1, current)
    ELSE IF ~HasPrefix(rest, <<"[">>) THEN ResErr
    ELSE LET closeBracket == Index(rest, <<"]">>) IN
         IF closeBracket < 0 THEN ResErr
         ELSE LET indexStr == SubSeq(rest, 2, closeBracket)
                  rest2 == Drop(rest, closeBracket + 1)
              IN IF indexStr = <<"*">>
                 THEN IF ~IsArr(current) THEN ResErr
                      ELSE LET remainingSegments ==
                                   (IF rest2 # <<>> THEN <<rest2>> ELSE <<>>)
                                   \o (IF i < Len(parts) THEN SubSeq(parts, i + 1, Len(parts))
                                       ELSE <<>>)
                               remainingPath ==
                                   TrimPrefix(Join(remainingSegments, <<".">>), <<".">>)
                               results == wildcardCollect(current.a, remainingPath)
                           IN ResOk(IF results = <<>> THEN NilSlice ELSE Arr(results))
                 ELSE LET index == Atoi(indexStr) IN
                      IF ~index.ok THEN ResErr
                      ELSE IF ~IsArr(current) THEN ResErr
                      ELSE IF index.n < 0 \/ index.n >= Len(current.a) THEN ResErr
                      ELSE resolveBrackets(parts, i, rest2, current.a[index.n + 1])

ResolveJSONPath(path, data) ==
    LET stripped == IF HasPrefix(path, <<"$", ".">>) THEN Drop(path, 2) ELSE path
    IN resolveParts(splitJSONPath(stripped), 1, data)

(***************************************************************************)
(* lib.MatchAssertion.  A matcher is the JSON value its raw text parses    *)
(* to; Invalid stands for raw text that is not JSON (a template            *)
(* substitution can produce it).  Each operator is TRUE when the Go        *)
(* function returns a nil error.                                           *)
(***************************************************************************)
Invalid == [t |-> "invalid"]

Contains(s, sub) == Index(s, sub) >= 0

\* The keywords of the matchers.
Kw ==
    [K_any |-> <<"a", "n", "y">>,
     K_absent |-> <<"a", "b", "s", "e", "n", "t">>,
     K_exists |-> <<"e", "x", "i", "s", "t", "s">>,
     K_string_nonempty |-> <<"s", "t", "r", "i", "n", "g", ":", "n", "o", "n", "e", "m", "p", "t", "y">>,
     K_string_non_empty |-> <<"s", "t", "r", "i", "n", "g", ":", "n", "o", "n", "_", "e", "m", "p", "t", "y">>,
     K_number_positive |-> <<"n", "u", "m", "b", "e", "r", ":", "p", "o", "s", "i", "t", "i", "v", "e">>,
     K_array_nonempty |-> <<"a", "r", "r", "a", "y", ":", "n", "o", "n", "e", "m", "p", "t", "y">>,
     K_array_empty |-> <<"a", "r", "r", "a", "y", ":", "e", "m", "p", "t", "y">>,
     K_array_min_length |-> <<"a", "r", "r", "a", "y", ":", "m", "i", "n", "_", "l", "e", "n", "g", "t", "h", ":">>,
     K_array_min |-> <<"a", "r", "r", "a", "y", ":", "m", "i", "n", ":">>,
     K_array_length |-> <<"a", "r", "r", "a", "y", ":", "l", "e", "n", "g", "t", "h", ":">>,
     K_contains |-> <<"c", "o", "n", "t", "a", "i", "n", "s", ":">>,
     K_not_contains |-> <<"n", "o", "t", "_", "c", "o", "n", "t", "a", "i", "n", "s", ":">>,
     K_string_contains |-> <<"s", "t", "r", "i", "n", "g", ":", "c", "o", "n", "t", "a", "i", "n", "s", ":">>,
     K_exists_op |-> <<"$", "e", "x", "i", "s", "t", "s">>,
     K_type_op |-> <<"$", "t", "y", "p", "e">>,
     K_in_op |-> <<"$", "i", "n">>,
     K_size_op |-> <<"$", "s", "i", "z", "e">>,
     K_gte_op |-> <<"$", "g", "t", "e">>,
     K_or_op |-> <<"$", "o", "r">>,
     K_empty_op |-> <<"$", "e", "m", "p", "t", "y">>,
     K_one_of |-> <<"o", "n", "e", "_", "o", "f", ":">>,
     K_number_non_negative |->
        <<"n", "u", "m", "b", "e", "r", ":", "n", "o", "n", "_", "n", "e", "g", "a", "t", "i", "v", "e">>]

\* The tolerance of the ~N matcher, in percent.
DefaultTimingTolerancePct == 50

\* approxPattern ^~(\d+(?:\.\d+)?)$ for a whole number N: a tilde, then one
\* or more digits.
approxPattern(matcher) ==
    /\ Len(matcher) >= 2
    /\ matcher[1] = "~"
    /\ \A k \in 2..Len(matcher) : IsDigit(matcher[k])

\* The ~N matcher: the actual value is a number and |n - N| is at most
\* N * DefaultTimingTolerancePct / 100, compared with both sides times 100.
approxMatches(expected, actual) ==
    /\ actual.t = "number"
    /\ ~(100 * (IF actual.n < expected THEN expected - actual.n ELSE actual.n - expected)
            > expected * DefaultTimingTolerancePct)

\* The string matchers of matchStringAssertion that test a named form with a
\* numeric or textual parameter after a prefix.
matchPrefixed(matcher, actual) ==
    LET arg(prefix) == Drop(matcher, Len(prefix))
        anyElem(target) == \E k \in 1..Len(actual.a) : FmtV(actual.a[k]) = target
    IN CASE HasPrefix(matcher, Kw.K_array_min_length) ->
                Atoi(arg(Kw.K_array_min_length)).ok /\ IsArr(actual)
                /\ Len(actual.a) >= Atoi(arg(Kw.K_array_min_length)).n
         [] HasPrefix(matcher, Kw.K_array_min) ->
                Atoi(arg(Kw.K_array_min)).ok /\ IsArr(actual)
                /\ Len(actual.a) >= Atoi(arg(Kw.K_array_min)).n
         [] HasPrefix(matcher, Kw.K_array_length) ->
                Atoi(arg(Kw.K_array_length)).ok /\ IsArr(actual)
                /\ Len(actual.a) = Atoi(arg(Kw.K_array_length)).n
         [] HasPrefix(matcher, Kw.K_contains) -> IsArr(actual) /\ anyElem(arg(Kw.K_contains))
         [] HasPrefix(matcher, Kw.K_not_contains) -> IsArr(actual) /\ ~anyElem(arg(Kw.K_not_contains))
         [] HasPrefix(matcher, Kw.K_string_contains) ->
                actual.t = "string" /\ Contains(actual.s, arg(Kw.K_string_contains))
         [] approxPattern(matcher) -> approxMatches(DigitsVal(Tail(matcher), 0), actual)
         [] OTHER -> actual.t = "string" /\ actual.s = matcher

\* A faulty variant of existsMatches: null exists too.
existsMatchesNull(actual) == TRUE

\* The "exists" matcher: the actual value is not nil.
existsMatches(actual) == actual # Nil

\* The model's matchers use the keyword, prefix and literal forms; the
\* ~N form for whole numbers N; the other regular-expression forms
\* (string:uuid, string:datetime, number:range(), array:length(),
\* string:pattern()) are not among its inputs.
matchStringAssertion(matcher, actual) ==
    CASE matcher = Kw.K_any -> TRUE
      [] matcher = Kw.K_absent -> actual = Nil
      [] matcher = Kw.K_exists -> existsMatches(actual)
      [] matcher \in {Kw.K_string_nonempty, Kw.K_string_non_empty} ->
            actual.t = "string" /\ actual.s # <<>>
      [] matcher = Kw.K_number_positive -> actual.t = "number" /\ actual.n > 0
      [] matcher = Kw.K_number_non_negative -> actual.t = "number" /\ actual.n >= 0
      [] matcher = Kw.K_array_nonempty -> IsArr(actual) /\ Len(actual.a) # 0
      [] matcher = Kw.K_array_empty -> IsArr(actual) /\ Len(actual.a) = 0
      [] OTHER -> matchPrefixed(matcher, actual)

matchNumberAssertion(expected, actual) == actual.t = "number" /\ actual.n = expected

\* jsonType(v) as a tag of the model.
jsonType(v) == v.t

TypeName(chars) ==
    CASE chars = <<"s", "t", "r", "i", "n", "g">> -> "string"
      [] chars = <<"n", "u", "m", "b", "e", "r">> -> "number"
      [] chars = <<"b", "o", "o", "l", "e", "a", "n">> -> "boolean"
      [] chars = <<"n", "u", "l", "l">> -> "nil"
      [] chars = <<"a", "r", "r", "a", "y">> -> "array"
      [] chars = <<"o", "b", "j", "e", "c", "t">> -> "object"
      [] OTHER -> "unknown"

matchExistsAssertion(expected, actual) ==
    LET ex == expected[Kw.K_exists_op] IN
    /\ ex.t \in {"boolean", "nil"}
    /\ LET exists == ex.t = "boolean" /\ ex.b IN
       /\ ~(exists /\ actual = Nil)
       /\ ~(~exists /\ actual # Nil)
       /\ (Kw.K_type_op \in DOMAIN expected /\ expected[Kw.K_type_op].t \in {"string", "nil"})
            => /\ expected[Kw.K_type_op].t = "string"
               /\ jsonType(actual) = TypeName(expected[Kw.K_type_op].s)

matchSizeAssertion(expected, actual) ==
    LET sz == expected[Kw.K_size_op] IN
    /\ IsArr(actual)
    /\ CASE sz.t \in {"number", "nil"} -> Len(actual.a) = (IF sz.t = "number" THEN sz.n ELSE 0)
         [] sz.t = "object" /\ Kw.K_gte_op \in DOMAIN sz.o /\ sz.o[Kw.K_gte_op].t \in {"number", "nil"} ->
                Len(actual.a) >= (IF sz.o[Kw.K_gte_op].t = "number" THEN sz.o[Kw.K_gte_op].n ELSE 0)
         [] OTHER -> FALSE

RECURSIVE MatchAssertion(_, _)

matchArrayAssertion(expected, actual) ==
    /\ IsArr(actual)
    /\ Len(actual.a) = Len(expected)
    /\ \A k \in 1..Len(expected) : MatchAssertion(expected[k], actual.a[k])

\* $in and $or: the value unmarshals to a list and some listed matcher
\* accepts the actual value (null unmarshals to an empty list).
matchAnyOf(list, actual) ==
    /\ list.t = "array"
    /\ \E k \in 1..Len(list.a) : MatchAssertion(list.a[k], actual)

\* The operator keys in the order the code tests them; the model's matcher
\* objects hold neither $match nor range.
matchObjectAssertion(expected, actual) ==
    IF Kw.K_exists_op \in DOMAIN expected THEN matchExistsAssertion(expected, actual)
    ELSE IF Kw.K_in_op \in DOMAIN expected THEN matchAnyOf(expected[Kw.K_in_op], actual)
    ELSE IF Kw.K_size_op \in DOMAIN expected THEN matchSizeAssertion(expected, actual)
    ELSE IF Kw.K_or_op \in DOMAIN expected THEN matchAnyOf(expected[Kw.K_or_op], actual)
    ELSE IF Kw.K_empty_op \in DOMAIN expected THEN TRUE
    ELSE /\ IsMap(actual)
         /\ \A key \in DOMAIN expected :
               IF expected[key] = Str(Kw.K_absent)
               THEN ~MapHas(actual, key)
               ELSE MapHas(actual, key) /\ MatchAssertion(expected[key], actual.o[key])

MatchAssertion(matcher, actual) ==
    CASE matcher.t = "nil" -> actual = Nil
      [] matcher.t = "string" -> matchStringAssertion(matcher.s, actual)
      [] matcher.t = "number" -> matchNumberAssertion(matcher.n, actual)
      [] matcher.t = "boolean" -> actual.t = "boolean" /\ actual.b = matcher.b
      [] matcher.t = "array" -> matchArrayAssertion(matcher.a, actual)
      [] matcher.t = "object" -> matchObjectAssertion(matcher.o, actual)
      [] OTHER -> FALSE


(***************************************************************************)
(* resolveTemplates and resolveMatcherTemplates (the two runners hold the  *)
(* same code).  templateRefPattern is                                      *)
(*   \{\{steps\.([^.]+)\.response\.body\.([^}]+)\}\}                       *)
(***************************************************************************)
TplOpen == <<"{", "{", "s", "t", "e", "p", "s", ".">>
TplMid == <<".", "r", "e", "s", "p", "o", "n", "s", "e", ".", "b", "o", "d", "y", ".">>
TplClose == <<"}", "}">>

\* The match of templateRefPattern that starts at character i of s, if any:
\* the step id runs to the first dot, the field path to the first brace.
templateMatchAt(s, i) ==
    LET rest == Drop(s, i - 1)
        none == [ok |-> FALSE, stepID |-> <<>>, fieldPath |-> <<>>, len |-> 0]
    IN IF s[i] # "{" \/ ~HasPrefix(rest, TplOpen) THEN none
       ELSE LET afterOpen == Drop(rest, Len(TplOpen))
                dot == Index(afterOpen, <<".">>)
            IN IF dot < 1 \/ ~HasPrefix(Drop(afterOpen, dot), TplMid) THEN none
               ELSE LET afterMid == Drop(afterOpen, dot + Len(TplMid))
                        brace == Index(afterMid, <<"}">>)
                    IN IF brace < 1 \/ ~HasPrefix(Drop(afterMid, brace), TplClose) THEN none
                       ELSE [ok |-> TRUE,
                             stepID |-> Take(afterOpen, dot),
                             fieldPath |-> Take(afterMid, brace),
                             len |-> Len(TplOpen) + dot + Len(TplMid) + brace + Len(TplClose)]

\* A faulty variant of templateReplacement: an unresolved token is dropped.
templateReplacementDropping(match, m, stepResults) ==
    IF m.stepID \notin DOMAIN stepResults \/ stepResults[m.stepID].Parsed = NilMap
    THEN <<>>
    ELSE LET r == ResolveJSONPath(m.fieldPath, stepResults[m.stepID].Parsed) IN
         IF r.err \/ r.val = Nil THEN <<>>
         ELSE IF r.val.t = "string" THEN r.val.s
         ELSE IF r.val.t = "number" THEN Itoa(r.val.n)
         ELSE MarshalJSON(r.val)

\* The replacement function: what one matched token is replaced by.
templateReplacement(match, m, stepResults) ==
    IF m.stepID \notin DOMAIN stepResults \/ stepResults[m.stepID].Parsed = NilMap
    THEN match
    ELSE LET r == ResolveJSONPath(m.fieldPath, stepResults[m.stepID].Parsed) IN
         IF r.err \/ r.val = Nil THEN match
         ELSE IF r.val.t = "string" THEN r.val.s
         ELSE IF r.val.t = "number" THEN Itoa(r.val.n)
         ELSE MarshalJSON(r.val)

RECURSIVE resolveFrom(_, _, _)
resolveFrom(input, i, stepResults) ==
    IF i > Len(input) THEN <<>>
    ELSE LET m == templateMatchAt(input, i) IN
         IF m.ok
         THEN templateReplacement(SubSeq(input, i, i + m.len - 1), m, stepResults)
              \o resolveFrom(input, i + m.len, stepResults)
         ELSE <<input[i]>> \o resolveFrom(input, i + 1, stepResults)

resolveTemplates(input, stepResults) == resolveFrom(input, 1, stepResults)

\* The raw text of a matcher is held as the JSON value it denotes; the
\* templates of the text lie inside its string literals and object keys.
RECURSIVE HasTemplateMarker(_)
HasTemplateMarker(m) ==
    CASE m.t = "string" -> Contains(m.s, TplOpen)
      [] m.t = "array" -> \E k \in 1..Len(m.a) : HasTemplateMarker(m.a[k])
      [] m.t = "object" ->
            \E key \in DOMAIN m.o : Contains(key, TplOpen) \/ HasTemplateMarker(m.o[key])
      [] OTHER -> FALSE

\* A string literal whose substituted text holds a quote or a backslash no
\* longer parses as the string it was.
BreaksLiteral(chars) == \E k \in 1..Len(chars) : chars[k] \in {"\"", "\\"}

\* The string a literal becomes when its text s is replaced by r.
substitutedString(s, r) == IF r # s /\ BreaksLiteral(r) THEN Invalid ELSE Str(r)

\* The array of the substituted elements a.
substitutedArray(a) ==
    IF \E k \in 1..Len(a) : a[k] = Invalid THEN Invalid ELSE Arr(a)

\* The object whose keys are renamed by newKey and whose values become vals.
substitutedObject(keys, newKey, vals) ==
    IF \/ \E key \in keys : vals[key] = Invalid \/ BreaksLiteral(newKey[key])
       \/ \E k1, k2 \in keys : k1 # k2 /\ newKey[k1] = newKey[k2]
    THEN Invalid
    ELSE Obj([nk \in {newKey[key] : key \in keys} |->
                 vals[CHOOSE key \in keys : newKey[key] = nk]])

RECURSIVE substituteIn(_, _)
substituteIn(m, stepResults) ==
    CASE m.t = "string" -> substitutedString(m.s, resolveTemplates(m.s, stepResults))
      [] m.t = "array" ->
            substitutedArray([k \in 1..Len(m.a) |-> substituteIn(m.a[k], stepResults)])
      [] m.t = "object" ->
            substitutedObject(DOMAIN m.o,
                              [key \in DOMAIN m.o |-> resolveTemplates(key, stepResults)],
                              [key \in DOMAIN m.o |-> substituteIn(m.o[key], stepResults)])
      [] OTHER -> m

\* The matcher itself unless the resolved text differs from it.
changedOr(matcher, resolved) == IF resolved # matcher THEN resolved ELSE matcher

resolveMatcherTemplates(matcher, stepResults) ==
    IF ~HasTemplateMarker(matcher) THEN matcher
    ELSE changedOr(matcher, substituteIn(matcher, stepResults))

(***************************************************************************)
(* evaluateStatusAssertion and evaluateAssertions.                         *)
(*                                                                         *)
(* An optional field (a nil pointer, an empty json.RawMessage) is a        *)
(* sequence of length 0 or 1; a nil map is the empty function.             *)
(***************************************************************************)

RECURSIVE Split(_, _)
Split(s, sep) ==
    LET k == Index(s, sep)
    IN IF k < 0 THEN <<s>> ELSE <<Take(s, k)>> \o Split(Drop(s, k + Len(sep)), sep)

TrimSpace(s) == Trim(s, {" "})

\* The loop over the codes of a one_of: matcher: an invalid code ends it
\* with an error, a code equal to the status ends it with success.
RECURSIVE oneOfMatches(_, _)
oneOfMatches(codes, actual) ==
    IF codes = <<>> THEN FALSE
    ELSE LET code == Atoi(TrimSpace(codes[1])) IN
         IF ~code.ok THEN FALSE
         ELSE IF actual = code.n THEN TRUE
         ELSE oneOfMatches(Tail(codes), actual)

\* TRUE when evaluateStatusAssertion returns nil.
evaluateStatusAssertion(raw, actual) ==
    IF raw.t = "number" THEN actual = raw.n
    ELSE IF raw.t = "nil" THEN actual = 0
    ELSE IF raw.t = "string"
    THEN IF HasPrefix(raw.s, Kw.K_one_of)
         THEN oneOfMatches(Split(Drop(raw.s, Len(Kw.K_one_of)), <<",">>), actual)
         ELSE MatchAssertion(raw, Num(actual))
    ELSE IF raw.t = "object" /\ Kw.K_in_op \in DOMAIN raw.o /\ raw.o[Kw.K_in_op].t = "array"
            /\ \A k \in 1..Len(raw.o[Kw.K_in_op].a) : raw.o[Kw.K_in_op].a[k].t = "number"
    THEN \E k \in 1..Len(raw.o[Kw.K_in_op].a) : raw.o[Kw.K_in_op].a[k].n = actual
    ELSE FALSE

\* A lib.Failure: the step, the field, and the message by its format.
Failure(stepID, field, message) == [StepID |-> stepID, Field |-> field, Message |-> message]

\* The field names of the failures.
Fld ==
    [F_status |-> <<"s", "t", "a", "t", "u", "s">>,
     F_timing |-> <<"t", "i", "m", "i", "n", "g">>,
     F_body_contains |-> <<"b", "o", "d", "y", "_", "c", "o", "n", "t", "a", "i", "n", "s">>,
     F_header |-> <<"h", "e", "a", "d", "e", "r", ":">>,
     F_none |-> <<>>]

\* The failures of a sequence of per-item checks, in the order of the items.
FlatMap(items, F(_)) ==
    LET acc[k \in 0..Len(items)] == IF k = 0 THEN <<>> ELSE acc[k - 1] \o F(items[k])
    IN acc[Len(items)]

statusFailures(step, a, sr) ==
    IF Len(a.Status) > 0 /\ ~evaluateStatusAssertion(a.Status[1], sr.StatusCode)
    THEN <<Failure(step.ID, Fld.F_status, <<"status assertion">>)>>
    ELSE <<>>

statusInFailures(step, a, sr) ==
    IF Len(a.StatusIn) > 0 /\ ~\E k \in 1..Len(a.StatusIn) : sr.StatusCode = a.StatusIn[k]
    THEN <<Failure(step.ID, Fld.F_status, <<"Expected status in %v, got %d">>)>>
    ELSE <<>>

\* One alternative of the top-level $or passes when it unmarshals to a map
\* and every entry of it resolves and matches.
resolvedAndMatches(resolvedMatcher, r) == ~r.err /\ MatchAssertion(resolvedMatcher, r.val)

orAlternativePasses(alt, sr, stepResults) ==
    /\ alt.t \in {"object", "nil"}
    /\ alt.t = "object" =>
         \A p \in DOMAIN alt.o :
            resolvedAndMatches(resolveMatcherTemplates(alt.o[p], stepResults),
                               ResolveJSONPath(p, sr.Parsed))

orFailures(step, a, sr, stepResults) ==
    IF Kw.K_or_op \in DOMAIN a.Body /\ a.Body[Kw.K_or_op].t \in {"array", "nil"}
       /\ ~(/\ a.Body[Kw.K_or_op].t = "array"
            /\ \E k \in 1..Len(a.Body[Kw.K_or_op].a) :
                  orAlternativePasses(a.Body[Kw.K_or_op].a[k], sr, stepResults))
    THEN <<Failure(step.ID, Kw.K_or_op, <<"No $or alternative matched">>)>>
    ELSE <<>>

\* What one entry of a.Body adds, given its resolved matcher and what its
\* resolved path yields: a resolution error is a failure unless the matcher
\* is "absent", and so is a value the matcher does not accept.
bodyEntryOutcome(step, path, resolvedMatcher, r) ==
    IF r.err
    THEN IF resolvedMatcher = Str(Kw.K_absent) THEN <<>>
         ELSE <<Failure(step.ID, path, <<"Failed to resolve path %q: %v">>)>>
    ELSE IF ~MatchAssertion(resolvedMatcher, r.val)
         THEN <<Failure(step.ID, path, <<"Assertion failed at %q: %v">>)>>
         ELSE <<>>

\* The body of the loop over the entries of a.Body, for one entry.
bodyEntryFailures(step, a, sr, stepResults, path) ==
    IF HasPrefix(path, <<"$">>) /\ ~HasPrefix(path, <<"$", ".">>) THEN <<>>
    ELSE bodyEntryOutcome(step, path,
                          resolveMatcherTemplates(a.Body[path], stepResults),
                          ResolveJSONPath(resolveTemplates(path, stepResults), sr.Parsed))

\* The loop runs only over a parsed body; bodyOrder is the order in which
\* the range over the map a.Body yields its keys.
bodyFailures(step, a, sr, stepResults, bodyOrder) ==
    orFailures(step, a, sr, stepResults)
    \o (IF sr.Parsed # NilMap
        THEN LET one(path) == bodyEntryFailures(step, a, sr, stepResults, path)
             IN FlatMap(bodyOrder, one)
        ELSE <<>>)

bodyAbsentFailures(step, a, sr) ==
    LET one(path) ==
            IF ResolveJSONPath(path, sr.Parsed).val # Nil
            THEN <<Failure(step.ID, path, <<"Expected field %q to be absent">>)>>
            ELSE <<>>
    IN FlatMap(a.BodyAbsent, one)

Lower == <<"a", "b", "c", "d", "e", "f", "g", "h", "i", "j", "k", "l", "m",
           "n", "o", "p", "q", "r", "s", "t", "u", "v", "w", "x", "y", "z">>
Upper == <<"A", "B", "C", "D", "E", "F", "G", "H", "I", "J", "K", "L", "M",
           "N", "O", "P", "Q", "R", "S", "T", "U", "V", "W", "X", "Y", "Z">>
ToUpper(c) == IF \E k \in 1..26 : Lower[k] = c THEN Upper[CHOOSE k \in 1..26 : Lower[k] = c] ELSE c
ToLower(c) == IF \E k \in 1..26 : Upper[k] = c THEN Lower[CHOOSE k \in 1..26 : Upper[k] = c] ELSE c

\* textproto.CanonicalMIMEHeaderKey: the first letter and each letter after
\* a hyphen in upper case, the others in lower case.
CanonicalKey(key) ==
    [k \in 1..Len(key) |->
        IF k = 1 \/ key[k - 1] = "-" THEN ToUpper(key[k]) ELSE ToLower(key[k])]

\* http.Header.Get: the value under the canonical key, or the empty string.
HeaderGet(headers, key) ==
    IF CanonicalKey(key) \in DOMAIN headers THEN headers[CanonicalKey(key)] ELSE <<>>

\* headerOrder is the order in which the range over a.Headers yields its keys.
headerFailures(step, a, sr, headerOrder) ==
    LET one(key) ==
            IF HeaderGet(sr.Headers, key) # a.Headers[key]
            THEN <<Failure(step.ID, Fld.F_header \o key, <<"Expected header %q=%q, got %q">>)>>
            ELSE <<>>
    IN FlatMap(headerOrder, one)

\* lib.TimingConfig as main builds it (-tolerance defaults to 50).
TolerancePct == 50
MinToleranceMs == 100

Abs(n) == IF n < 0 THEN 0 - n ELSE n
Max(a, b) == IF a >= b THEN a ELSE b

\* TRUE when AssertApproximateMs returns nil: |actual - expected| is at most
\* max(expected * pct / 100, min), compared here with both sides times 100.
AssertApproximateMs(expectedMs, actualMs) ==
    ~(100 * Abs(actualMs - expectedMs) > Max(expectedMs * TolerancePct, 100 * MinToleranceMs))

timingFailures(step, a, sr) ==
    IF Len(a.TimingMs) = 0 THEN <<>>
    ELSE LET tm == a.TimingMs[1] IN
         (IF Len(tm.LessThan) > 0 /\ sr.DurationMs >= tm.LessThan[1]
          THEN <<Failure(step.ID, Fld.F_timing, <<"Expected response in < %dms, took %dms">>)>>
          ELSE <<>>)
         \o (IF Len(tm.GreaterThan) > 0 /\ sr.DurationMs <= tm.GreaterThan[1]
             THEN <<Failure(step.ID, Fld.F_timing, <<"Expected response in > %dms, took %dms">>)>>
             ELSE <<>>)
         \o (IF Len(tm.Approximate) > 0 /\ ~AssertApproximateMs(tm.Approximate[1], sr.DurationMs)
             THEN <<Failure(step.ID, Fld.F_timing, <<"timing assertion failed: expected ~%.0fms">>)>>
             ELSE <<>>)

bodyContainsFailures(step, a, sr) ==
    LET one(substr) ==
            IF ~Contains(sr.Body, substr)
            THEN <<Failure(step.ID, Fld.F_body_contains, <<"Response body does not contain %q">>)>>
            ELSE <<>>
    IN FlatMap(a.BodyContains, one)

\* evaluateAssertions of the HTTP runner.
evaluateAssertions(step, sr, stepResults, bodyOrder, headerOrder) ==
    LET a == step.Assertions[1] IN
    statusFailures(step, a, sr)
    \o statusInFailures(step, a, sr)
    \o bodyFailures(step, a, sr, stepResults, bodyOrder)
    \o bodyAbsentFailures(step, a, sr)
    \o headerFailures(step, a, sr, headerOrder)
    \o timingFailures(step, a, sr)
    \o bodyContainsFailures(step, a, sr)

\* evaluateAssertions of the gRPC runner: the same, without the headers.
grpcEvaluateAssertions(step, sr, stepResults, bodyOrder) ==
    LET a == step.Assertions[1] IN
    statusFailures(step, a, sr)
    \o statusInFailures(step, a, sr)
    \o bodyFailures(step, a, sr, stepResults, bodyOrder)
    \o bodyAbsentFailures(step, a, sr)
    \o timingFailures(step, a, sr)
    \o bodyContainsFailures(step, a, sr)


(***************************************************************************)
(* buildReport: the aggregation of the test results into the report.       *)
(***************************************************************************)
Statuses == {"pass", "fail", "skip", "error"}

\* The last level the conformance walk visits.
LastWalkLevel == 4

CountOf(results, P(_)) == Cardinality({k \in 1..Len(results) : P(results[k])})

\* The results with one of the given statuses, in the order of the list.
SelectStatus(results, sts) == SelectSeq(results, LAMBDA r : r.Status \in sts)

\* The counters of one level after the loop over the results (AllPass is
\* the zero value until something sets it).
levelCounts(results, lvl, failedStatuses) ==
    [Total   |-> CountOf(results, LAMBDA r : r.Level = lvl),
     Passed  |-> CountOf(results, LAMBDA r : r.Level = lvl /\ r.Status = "pass"),
     Failed  |-> CountOf(results, LAMBDA r : r.Level = lvl /\ r.Status \in failedStatuses),
     Skipped |-> CountOf(results, LAMBDA r : r.Level = lvl /\ r.Status = "skip"),
     Errored |-> CountOf(results, LAMBDA r : r.Level = lvl /\ r.Status = "error"),
     AllPass |-> FALSE]

LevelsOf(results) == {results[k].Level : k \in 1..Len(results)}

\* The conformance walk of the HTTP runner from level lvl on: a level with
\* no entry is passed over, an entry gets its AllPass when the walk visits
\* it, and the walk ends at the first visited level that is not all-pass.
RECURSIVE httpWalk(_, _, _)
httpWalk(byLevel, lvl, conformantLevel) ==
    IF lvl > LastWalkLevel THEN [ByLevel |-> byLevel, ConformantLevel |-> conformantLevel]
    ELSE IF lvl \notin DOMAIN byLevel THEN httpWalk(byLevel, lvl + 1, conformantLevel)
    ELSE LET ls == byLevel[lvl]
             allPass == ls.Failed = 0 /\ ls.Errored = 0
             updated == [byLevel EXCEPT ![lvl].AllPass = allPass]
         IN IF allPass /\ ls.Total > 0
            THEN httpWalk(updated, lvl + 1, lvl)
            ELSE [ByLevel |-> updated, ConformantLevel |-> conformantLevel]

\* buildReport of the HTTP runner.
buildReport(results) ==
    LET byLevel == [lvl \in LevelsOf(results) |-> levelCounts(results, lvl, {"fail"})]
        failed == CountOf(results, LAMBDA r : r.Status = "fail")
        errored == CountOf(results, LAMBDA r : r.Status = "error")
        walk == httpWalk(byLevel, 0, -1)
    IN [Total    |-> Len(results),
        Passed   |-> CountOf(results, LAMBDA r : r.Status = "pass"),
        Failed   |-> failed,
        Skipped  |-> CountOf(results, LAMBDA r : r.Status = "skip"),
        Errored  |-> errored,
        ByLevel  |-> walk.ByLevel,
        Failures |-> SelectStatus(results, {"fail", "error"}),
        SkippedTests |-> SelectStatus(results, {"skip"}),
        Conformant |-> failed = 0 /\ errored = 0,
        ConformantLevel |-> walk.ConformantLevel]

\* The conformance walk of the gRPC runner: it ends at the first level with
\* no entry or not all-pass.
RECURSIVE grpcWalk(_, _, _)
grpcWalk(byLevel, lvl, conformantLevel) ==
    IF lvl > LastWalkLevel THEN conformantLevel
    ELSE IF lvl \notin DOMAIN byLevel \/ ~byLevel[lvl].AllPass THEN conformantLevel
    ELSE grpcWalk(byLevel, lvl + 1, lvl)

\* buildReport of the gRPC runner: a status that is none of pass, skip and
\* error counts as failed, and AllPass is kept up to date with every result.
grpcBuildReport(results) ==
    LET notFailed == {"pass", "skip", "error"}
        counts(lvl) == levelCounts(results, lvl, Statuses \ notFailed)
        byLevel == [lvl \in LevelsOf(results) |->
                       [counts(lvl) EXCEPT !.AllPass =
                           counts(lvl).Total > 0 /\ counts(lvl).Passed = counts(lvl).Total]]
        passed == CountOf(results, LAMBDA r : r.Status = "pass")
    IN [Total    |-> Len(results),
        Passed   |-> passed,
        Failed   |-> CountOf(results, LAMBDA r : r.Status \notin notFailed),
        Skipped  |-> CountOf(results, LAMBDA r : r.Status = "skip"),
        Errored  |-> CountOf(results, LAMBDA r : r.Status = "error"),
        ByLevel  |-> byLevel,
        Failures |-> SelectSeq(results, LAMBDA r : r.Status \notin {"pass", "skip"}),
        SkippedTests |-> SelectStatus(results, {"skip"}),
        Conformant |-> Len(results) > 0 /\ passed = Len(results),
        ConformantLevel |-> grpcWalk(byLevel, 0, -1)]

(***************************************************************************)
(* The route table of the gRPC adapter and ResolveRoute.                   *)
(***************************************************************************)
Route(action, prefix, method, exact) ==
    [HTTPAction |-> action, PathPrefix |-> prefix, RPCMethod |-> method, Exact |-> exact]

routeTable == <<
    Route("GET", <<"/", "o", "j", "s", "/", "m", "a", "n", "i", "f", "e", "s", "t">>, "Manifest", TRUE),
    Route("GET", <<"/", "o", "j", "s", "/", "v", "1", "/", "h", "e", "a", "l", "t", "h">>, "Health", TRUE),
    Route("POST", <<"/", "o", "j", "s", "/", "v", "1", "/", "j", "o", "b", "s", "/", "b", "a", "t", "c", "h">>, "EnqueueBatch", TRUE),
    Route("POST", <<"/", "o", "j", "s", "/", "v", "1", "/", "j", "o", "b", "s">>, "Enqueue", TRUE),
    Route("GET", <<"/", "o", "j", "s", "/", "v", "1", "/", "j", "o", "b", "s", "/">>, "GetJob", FALSE),
    Route("DELETE", <<"/", "o", "j", "s", "/", "v", "1", "/", "j", "o", "b", "s", "/">>, "CancelJob", FALSE),
    Route("POST", <<"/", "o", "j", "s", "/", "v", "1", "/", "w", "o", "r", "k", "e", "r", "s", "/", "f", "e", "t", "c", "h">>, "Fetch", TRUE),
    Route("POST", <<"/", "o", "j", "s", "/", "v", "1", "/", "w", "o", "r", "k", "e", "r", "s", "/", "a", "c", "k">>, "Ack", TRUE),
    Route("POST", <<"/", "o", "j", "s", "/", "v", "1", "/", "w", "o", "r", "k", "e", "r", "s", "/", "n", "a", "c", "k">>, "Nack", TRUE),
    Route("POST", <<"/", "o", "j", "s", "/", "v", "1", "/", "w", "o", "r", "k", "e", "r", "s", "/", "h", "e", "a", "r", "t", "b", "e", "a", "t">>, "Heartbeat", TRUE),
    Route("GET", <<"/", "o", "j", "s", "/", "v", "1", "/", "q", "u", "e", "u", "e", "s">>, "ListQueues", TRUE),
    Route("GET", <<"/", "o", "j", "s", "/", "v", "1", "/", "q", "u", "e", "u", "e", "s", "/">>, "QueueStats", FALSE),
    Route("POST", <<"/", "o", "j", "s", "/", "v", "1", "/", "q", "u", "e", "u", "e", "s", "/">>, "PauseOrResumeQueue", FALSE),
    Route("GET", <<"/", "o", "j", "s", "/", "v", "1", "/", "d", "e", "a", "d", "-", "l", "e", "t", "t", "e", "r">>, "ListDeadLetter", TRUE),
    Route("POST", <<"/", "o", "j", "s", "/", "v", "1", "/", "d", "e", "a", "d", "-", "l", "e", "t", "t", "e", "r", "/">>, "RetryDeadLetter", FALSE),
    Route("DELETE", <<"/", "o", "j", "s", "/", "v", "1", "/", "d", "e", "a", "d", "-", "l", "e", "t", "t", "e", "r", "/">>, "DeleteDeadLetter", FALSE),
    Route("GET", <<"/", "o", "j", "s", "/", "v", "1", "/", "c", "r", "o", "n">>, "ListCron", TRUE),
    Route("POST", <<"/", "o", "j", "s", "/", "v", "1", "/", "c", "r", "o", "n">>, "RegisterCron", TRUE),
    Route("DELETE", <<"/", "o", "j", "s", "/", "v", "1", "/", "c", "r", "o", "n", "/">>, "UnregisterCron", FALSE),
    Route("POST", <<"/", "o", "j", "s", "/", "v", "1", "/", "w", "o", "r", "k", "f", "l", "o", "w", "s">>, "CreateWorkflow", TRUE),
    Route("GET", <<"/", "o", "j", "s", "/", "v", "1", "/", "w", "o", "r", "k", "f", "l", "o", "w", "s", "/">>, "GetWorkflow", FALSE),
    Route("DELETE", <<"/", "o", "j", "s", "/", "v", "1", "/", "w", "o", "r", "k", "f", "l", "o", "w", "s", "/">>, "CancelWorkflow", FALSE)
>>

\* The method of the first exact row that matches, else of the first prefix
\* row that matches, else the empty string.
ResolveRoute(action, path) ==
    LET exact == {k \in 1..Len(routeTable) :
                     /\ routeTable[k].Exact
                     /\ routeTable[k].HTTPAction = action
                     /\ routeTable[k].PathPrefix = path}
        prefix == {k \in 1..Len(routeTable) :
                      /\ ~routeTable[k].Exact
                      /\ routeTable[k].HTTPAction = action
                      /\ HasPrefix(path, routeTable[k].PathPrefix)}
        first(S) == CHOOSE k \in S : \A j \in S : k <= j
    IN IF exact # {} THEN routeTable[first(exact)].RPCMethod
       ELSE IF prefix # {} THEN routeTable[first(prefix)].RPCMethod
       ELSE ""

HasSuffix(s, suffix) ==
    Len(s) >= Len(suffix) /\ Drop(s, Len(s) - Len(suffix)) = suffix

\* The method handed to CallRPC: PauseOrResumeQueue is told apart by the
\* end of the path.
rpcMethod(action, path) ==
    LET method == ResolveRoute(action, path) IN
    IF method = "PauseOrResumeQueue"
    THEN IF HasSuffix(path, <<"/", "p", "a", "u", "s", "e">>) THEN "PauseQueue"
         ELSE IF HasSuffix(path, <<"/", "r", "e", "s", "u", "m", "e">>) THEN "ResumeQueue"
         ELSE method
    ELSE method

GRPCCodeToHTTPStatus(code) ==
    CASE code = "OK" -> 200
      [] code = "InvalidArgument" -> 400
      [] code = "Unauthenticated" -> 401
      [] code = "PermissionDenied" -> 403
      [] code = "NotFound" -> 404
      [] code = "AlreadyExists" -> 409
      [] code = "FailedPrecondition" -> 412
      [] code = "ResourceExhausted" -> 429
      [] code = "Internal" -> 500
      [] code = "Unimplemented" -> 501
      [] code = "Unavailable" -> 503
      [] code = "DeadlineExceeded" -> 504
      [] OTHER -> 500


(***************************************************************************)
(* The test cases and the responses of the model.                          *)
(***************************************************************************)
\* The most steps a modelled test case holds, over setup, steps and teardown.
MaxSteps == 2

\* The most results a modelled suite run hands to buildReport.
MaxResults == 3

NoAssertions == <<>>
NoTiming == <<>>
Timing(lessThan, greaterThan, approximate) ==
    [LessThan |-> lessThan, GreaterThan |-> greaterThan, Approximate |-> approximate]

\* The strings of the modelled test cases and responses.
Lit ==
    [ID_a |-> <<"a">>,
     ID_b |-> <<"b">>,
     P_jobs |-> <<"/", "o", "j", "s", "/", "v", "1", "/", "j", "o", "b", "s">>,
     P_job |-> <<"/", "o", "j", "s", "/", "v", "1", "/", "j", "o", "b", "s", "/">>,
     P_queue |-> <<"/", "o", "j", "s", "/", "v", "1", "/", "q", "u", "e", "u", "e", "s", "/", "q">>,
     Tok_a_id |-> <<"{", "{", "s", "t", "e", "p", "s", ".", "a", ".", "r", "e", "s", "p", "o", "n", "s", "e", ".", "b", "o", "d", "y", ".", "j", "o", "b", ".", "i", "d", "}", "}">>,
     Tok_a_idx |-> <<"{", "{", "s", "t", "e", "p", "s", ".", "a", ".", "r", "e", "s", "p", "o", "n", "s", "e", ".", "b", "o", "d", "y", ".", "j", "o", "b", ".", "i", "d", ".", "x", "}", "}">>,
     Tok_b_id |-> <<"{", "{", "s", "t", "e", "p", "s", ".", "b", ".", "r", "e", "s", "p", "o", "n", "s", "e", ".", "b", "o", "d", "y", ".", "j", "o", "b", ".", "i", "d", "}", "}">>,
     Path_job_id |-> <<"$", ".", "j", "o", "b", ".", "i", "d">>,
     Path_job_state |-> <<"$", ".", "j", "o", "b", ".", "s", "t", "a", "t", "e">>,
     H_content_type |-> <<"c", "o", "n", "t", "e", "n", "t", "-", "t", "y", "p", "e">>,
     H_Content_Type |-> <<"C", "o", "n", "t", "e", "n", "t", "-", "T", "y", "p", "e">>,
     V_json |-> <<"a", "p", "p", "l", "i", "c", "a", "t", "i", "o", "n", "/", "j", "s", "o", "n">>,
     V_j1 |-> <<"j", "1">>,
     K_job |-> <<"j", "o", "b">>,
     K_id |-> <<"i", "d">>,
     K_ref |-> <<"r", "e", "f">>,
     K_items |-> <<"i", "t", "e", "m", "s">>,
     V_j2 |-> <<"j", "2">>]
ojsMediaType == <<"a", "p", "p", "l", "i", "c", "a", "t", "i", "o", "n", "/", "o", "p", "e", "n", "j", "o", "b", "s", "p", "e", "c", "+", "j", "s", "o", "n">>

\* POST /ojs/v1/jobs under id a, with a body that refers to step b and an
\* assertion of every group.
StepCreate ==
    [ID |-> Lit.ID_a, Action |-> "POST", Path |-> Lit.P_jobs,
     Body |-> <<MarshalJSON(Obj(Lit.K_ref :> Str(Lit.Tok_b_id)))>>,
     DelayMs |-> 0, DurationMs |-> 0,
     Assertions |-> <<[Status |-> <<Num(201)>>,
                       StatusIn |-> <<200, 201>>,
                       Body |-> (Lit.Path_job_id :> Str(Kw.K_exists)) @@ (Lit.Path_job_state :> Str(Kw.K_absent)),
                       BodyAbsent |-> <<Lit.Path_job_state>>,
                       Headers |-> (Lit.H_content_type :> Lit.V_json),
                       TimingMs |-> <<Timing(<<500>>, <<>>, <<>>)>>,
                       BodyContains |-> <<Lit.V_j1>>]>>]

\* GET of the job of step a under id b: the path holds a reference to a
\* field of a, one to a field below a string of a, and one to b itself; the
\* body matcher holds a reference too.
StepGet ==
    [ID |-> Lit.ID_b, Action |-> "GET", Path |-> Lit.P_job \o Lit.Tok_a_id \o Lit.Tok_a_idx \o Lit.Tok_b_id,
     Body |-> <<>>, DelayMs |-> 0, DurationMs |-> 0,
     Assertions |-> <<[Status |-> <<>>,
                       StatusIn |-> <<200, 201>>,
                       Body |-> (Lit.Path_job_id :> Str(Lit.Tok_a_id)),
                       BodyAbsent |-> <<>>,
                       Headers |-> <<>>,
                       TimingMs |-> NoTiming,
                       BodyContains |-> <<>>]>>]

\* An assertions block that holds this status assertion and nothing else.
OnlyStatus(status) ==
    [Status |-> status, StatusIn |-> <<>>, Body |-> <<>>, BodyAbsent |-> <<>>,
     Headers |-> <<>>, TimingMs |-> NoTiming, BodyContains |-> <<>>]

\* A WAIT step that bears the id of StepCreate, with an assertion that the
\* empty StepResult of a WAIT step does not meet.
StepWait ==
    [ID |-> Lit.ID_a, Action |-> "WAIT", Path |-> <<>>, Body |-> <<>>,
     DelayMs |-> 0, DurationMs |-> 10, Assertions |-> <<OnlyStatus(<<Num(200)>>)>>]

\* An ASSERT step: no path, no body, and an assertions block none of whose
\* fields the Assertions struct knows, so that it decodes to an empty block.
StepAssert ==
    [ID |-> Lit.ID_b, Action |-> "ASSERT", Path |-> <<>>, Body |-> <<>>,
     DelayMs |-> 0, DurationMs |-> 0, Assertions |-> <<OnlyStatus(<<>>)>>]

\* DELETE of a queue under the id of StepGet, with no assertions; the route
\* table has no row for it.
StepDelete ==
    [ID |-> Lit.ID_b, Action |-> "DELETE", Path |-> Lit.P_queue,
     Body |-> <<>>, DelayMs |-> 0, DurationMs |-> 0, Assertions |-> NoAssertions]

Catalogue == {StepCreate, StepGet, StepWait, StepDelete, StepAssert}

\* The test cases: at most MaxSteps steps of the catalogue, split into
\* setup, steps and teardown.
Splits(n) == {p \in (0..n) \X (0..n) : p[1] <= p[2]}

TestCases ==
    UNION {{[Setup |-> SubSeq(all, 1, p[1]), Steps |-> SubSeq(all, p[1] + 1, p[2]),
             Teardown |-> SubSeq(all, p[2] + 1, n)] :
               p \in Splits(n), all \in [1..n -> Catalogue]} : n \in 0..MaxSteps}

\* The JSON objects the modelled server answers with.  A body is held as
\* the text encoding/json writes for the value, which json.Unmarshal reads
\* back as that value.
JobBody(id) == Obj(Lit.K_job :> Obj(Lit.K_id :> id))

\* What client.Do and io.ReadAll hand back: an error, or a status, the
\* headers under their canonical names, the body and the time taken.
HTTPResponses ==
    {[err |-> TRUE],
     [err |-> FALSE, StatusCode |-> 201, Headers |-> (Lit.H_Content_Type :> Lit.V_json),
      Body |-> <<JobBody(Str(Lit.V_j1))>>, DurationMs |-> 20],
     [err |-> FALSE, StatusCode |-> 200, Headers |-> (Lit.H_Content_Type :> Lit.V_json),
      Body |-> <<JobBody(Nil)>>, DurationMs |-> 20],
     [err |-> FALSE, StatusCode |-> 404, Headers |-> <<>>,
      Body |-> <<>>, DurationMs |-> 700]}

\* The body grpcError makes of a gRPC status.
ErrorBody(code) ==
    Obj(<<"e", "r", "r", "o", "r">> :>
          Obj((<<"c", "o", "d", "e">> :> Str(code))
              @@ (<<"m", "e", "s", "s", "a", "g", "e">> :> Str(<<"x">>))))

\* What an RPC of the client hands back, and the time taken: a response,
\* or what grpcError makes of the error of the call (a status with its
\* body, or Internal without a body for an error that is no status).
RPCResults ==
    {[err |-> FALSE, GRPCCode |-> "NotFound", HTTPStatusOverride |-> 0,
      ResponseJSON |-> <<ErrorBody(<<"N", "o", "t", "F", "o", "u", "n", "d">>)>>, DurationMs |-> 20],
     [err |-> FALSE, GRPCCode |-> "OK", HTTPStatusOverride |-> 201,
      ResponseJSON |-> <<JobBody(Str(Lit.V_j1))>>, DurationMs |-> 20],
     [err |-> FALSE, GRPCCode |-> "OK", HTTPStatusOverride |-> 0,
      ResponseJSON |-> <<JobBody(Nil)>>, DurationMs |-> 20],
     [err |-> FALSE, GRPCCode |-> "Internal", HTTPStatusOverride |-> 0,
      ResponseJSON |-> <<>>, DurationMs |-> 700]}

\* CallRPC: a method its switch has no case for returns an error; of the
\* methods executeStep hands over that is PauseOrResumeQueue.
CallRPC(method) ==
    IF method = "PauseOrResumeQueue" THEN {[err |-> TRUE]} ELSE RPCResults

(***************************************************************************)
(* runTest and executeStep as a state machine over one test case.          *)
(*                                                                         *)
(* pc and idx are the position of runTest: the loop it is in and the step  *)
(* of that loop executeStep is about to run or is running; sent says that  *)
(* executeStep has sent its request and waits for the answer.              *)
(***************************************************************************)
VARIABLES
    runner,       \* "http" or "grpc": which of the two runners runs
    tc,           \* the test case
    pc,           \* "setup", "steps", "teardown", "return" or "done"
    idx,          \* the index of the current step in its loop
    sent,         \* the request of the current step is in flight
    stepResults,  \* runTest's map from step id to StepResult
    result,       \* the TestResult under construction
    calls,        \* history: the transport calls made so far
    executed,     \* history: what each call of executeStep was given and returned
    results,      \* the results of a suite run
    report,       \* what buildReport made of them, once it has run
    matchInput,   \* a matcher and an actual value for MatchAssertion
    matchResult,  \* whether MatchAssertion returned nil for them, once it has run
    evalInput,    \* a step and a StepResult for evaluateAssertions
    evalResult,   \* the failures evaluateAssertions returned for them, once it has run
    pathInput,    \* a path and a document for ResolveJSONPath
    pathResult,   \* what ResolveJSONPath returned for them, once it has run
    waitInput,    \* a WAIT step for executeStep
    slept,        \* the sleeps executeStep made for it, in order, once it has run
    tplInput,     \* an earlier response, a matcher that refers to it and an actual value
    tplResult     \* whether the resolved matcher accepted the value, once it has run

vars == <<runner, tc, pc, idx, sent, stepResults, result, calls, executed, results, report,
          matchInput, matchResult, evalInput, evalResult,
          pathInput, pathResult, waitInput, slept, tplInput, tplResult>>

Runners == {"http", "grpc"}

PhaseSteps(t, phase) ==
    CASE phase = "setup" -> t.Setup
      [] phase = "steps" -> t.Steps
      [] phase = "teardown" -> t.Teardown
      [] OTHER -> <<>>

CurrentStep == PhaseSteps(tc, pc)[idx]

\* Where runTest goes on after the step idx of loop phase: the next step of
\* the loop, the first step of the next loop that has one, or the return.
NextPosition(t, phase, i) ==
    LET later(ph) == CASE ph = "setup" -> {"steps", "teardown"}
                       [] ph = "steps" -> {"teardown"}
                       [] OTHER -> {}
        first(phs) == IF "steps" \in phs /\ Len(t.Steps) > 0 THEN "steps"
                      ELSE IF "teardown" \in phs /\ Len(t.Teardown) > 0 THEN "teardown"
                      ELSE "return"
    IN IF i < Len(PhaseSteps(t, phase)) THEN [pc |-> phase, idx |-> i + 1]
       ELSE [pc |-> first(later(phase)), idx |-> 1]

FirstPosition(t) ==
    IF Len(t.Setup) > 0 THEN [pc |-> "setup", idx |-> 1]
    ELSE NextPosition(t, "setup", 0)

EmptyStepResult(stepID) ==
    [StepID |-> stepID, StatusCode |-> 0, Headers |-> <<>>, Body |-> <<>>,
     DurationMs |-> 0, Parsed |-> NilMap]

\* A faulty variant of setupFailure: every failure of the step is recorded.
setupFailureEach(step, failures) ==
    [k \in 1..Len(failures) |->
        Failure(step.ID, Fld.F_none, <<"Setup step failed: %s">> \o failures[k].Message)]

\* The failure runTest records for a setup step that failed.
setupFailure(step, failures) ==
    <<Failure(step.ID, Fld.F_none, <<"Setup step failed: %s">> \o failures[1].Message)>>

\* A faulty variant of finalStatus: failures do not change the verdict.
finalStatusAlwaysPass(failures) == "pass"

\* The verdict runTest returns when no setup step failed.
finalStatus(failures) == IF Len(failures) > 0 THEN "fail" ELSE "pass"

\* A faulty variant of teardownFailures: the failures are kept.
teardownFailuresKept(failures) == failures

\* What runTest keeps of the failures of a teardown step.
teardownFailures(failures) == <<>>

\* What runTest does with the StepResult and the failures executeStep
\* returned for the current step.
AfterStep(sr, failures) ==
    /\ stepResults' = (CurrentStep.ID :> sr) @@ stepResults
    /\ IF pc = "setup" /\ Len(failures) > 0
       THEN /\ result' = [result EXCEPT !.Status = "error",
                              !.Failures = @ \o setupFailure(CurrentStep, failures)]
            /\ pc' = "done"
            /\ idx' = idx
       ELSE /\ result' =
                 CASE pc = "steps" ->
                        [result EXCEPT !.StepResults = Append(@, sr), !.Failures = @ \o failures]
                   [] pc = "teardown" ->
                        [result EXCEPT !.Failures = @ \o teardownFailures(failures)]
                   [] OTHER -> result
            /\ pc' = NextPosition(tc, pc, idx).pc
            /\ idx' = NextPosition(tc, pc, idx).idx

\* kind says how executeStep ended: "wait", "unroutable", "transport_error"
\* or "answered"; path and body are the resolved texts of the request.
Executed(kind, path, body, sr, failures) ==
    [phase |-> pc, idx |-> idx, kind |-> kind,
     path |-> path, body |-> body, sr |-> sr, failures |-> failures]

IsWait(step) == step.Action \in {"WAIT", "wait", "Wait"}

\* The resolved body of the request, if the step has a body.
requestBody(step, ctx) ==
    IF Len(step.Body) > 0 THEN <<resolveTemplates(step.Body[1], ctx)>> ELSE <<>>

\* The Content-Type of the HTTP request: the step sets no header itself.
contentType(body) == IF Len(body) > 0 THEN ojsMediaType ELSE <<>>

\* The request as it goes out: for gRPC under the method of its route.
Request(step, path, body) ==
    [phase |-> pc, idx |-> idx, Action |-> step.Action, Path |-> path, Body |-> body,
     ContentType |-> IF runner = "http" THEN contentType(body) ELSE <<>>,
     Method |-> IF runner = "grpc" THEN rpcMethod(step.Action, path) ELSE ""]

\* executeStep returns sr and failures, and runTest goes on with them.
Returned(kind, path, body, sr, failures) ==
    /\ AfterStep(sr, failures)
    /\ executed' = Append(executed, Executed(kind, path, body, sr, failures))

\* A faulty variant of waitFailures: the assertions of the step are
\* evaluated on its empty StepResult.
waitFailuresEvaluated(step) ==
    IF step.Assertions = NoAssertions THEN <<>>
    ELSE evaluateAssertions(step, EmptyStepResult(step.ID), <<>>,
                            <<>>, <<>>)

\* The failures executeStep returns for a WAIT step: nil, whatever
\* assertions the step holds.
waitFailures(step) == <<>>

\* executeStep of a WAIT step: no request, an empty StepResult, no failure.
WaitStep ==
    /\ pc \in {"setup", "steps", "teardown"}
    /\ ~sent
    /\ IsWait(CurrentStep)
    /\ Returned("wait", <<>>, <<>>, EmptyStepResult(CurrentStep.ID), waitFailures(CurrentStep))
    /\ UNCHANGED <<pathInput, pathResult, waitInput, slept, tplInput, tplResult, matchInput, matchResult, evalInput, evalResult, runner, tc, sent, calls, results, report>>

\* executeStep up to the transport call: the templates of path and body are
\* resolved and the request goes out.
SendRequest ==
    /\ pc \in {"setup", "steps", "teardown"}
    /\ ~sent
    /\ ~IsWait(CurrentStep)
    /\ runner = "grpc" => ResolveRoute(CurrentStep.Action,
                                       resolveTemplates(CurrentStep.Path, stepResults)) # ""
    /\ sent' = TRUE
    /\ calls' = Append(calls, Request(CurrentStep, resolveTemplates(CurrentStep.Path, stepResults),
                                       requestBody(CurrentStep, stepResults)))
    /\ UNCHANGED <<pathInput, pathResult, waitInput, slept, tplInput, tplResult, matchInput, matchResult, evalInput, evalResult, runner, tc, pc, idx, stepResults, result, executed, results, report>>

\* executeStep of the gRPC runner for a step that no row of the route table
\* matches: no call, an empty StepResult and one failure.
RouteFailure ==
    /\ pc \in {"setup", "steps", "teardown"}
    /\ ~sent
    /\ ~IsWait(CurrentStep)
    /\ runner = "grpc"
    /\ ResolveRoute(CurrentStep.Action, resolveTemplates(CurrentStep.Path, stepResults)) = ""
    /\ Returned("unroutable", resolveTemplates(CurrentStep.Path, stepResults),
                requestBody(CurrentStep, stepResults), EmptyStepResult(CurrentStep.ID),
                <<Failure(CurrentStep.ID, Fld.F_none, <<"Cannot resolve gRPC method for %s %s">>)>>)
    /\ UNCHANGED <<pathInput, pathResult, waitInput, slept, tplInput, tplResult, matchInput, matchResult, evalInput, evalResult, runner, tc, sent, calls, results, report>>

\* The orders in which a range over a map with these keys can yield them.
Orders(keys) ==
    {o \in [1..Cardinality(keys) -> keys] : \A j, k \in 1..Cardinality(keys) : o[j] = o[k] => j = k}

\* The StepResult executeStep builds from an answer.
httpStepResult(step, resp) ==
    [StepID |-> step.ID, StatusCode |-> resp.StatusCode, Headers |-> resp.Headers,
     Body |-> IF Len(resp.Body) > 0 THEN MarshalJSON(resp.Body[1]) ELSE <<>>,
     DurationMs |-> resp.DurationMs,
     Parsed |-> IF Len(resp.Body) > 0 /\ resp.Body[1].t = "object" THEN resp.Body[1] ELSE NilMap]

grpcStepResult(step, rpcResult) ==
    [StepID |-> step.ID,
     StatusCode |-> IF rpcResult.HTTPStatusOverride > 0 /\ rpcResult.GRPCCode = "OK"
                    THEN rpcResult.HTTPStatusOverride
                    ELSE GRPCCodeToHTTPStatus(rpcResult.GRPCCode),
     Headers |-> <<>>,
     Body |-> IF Len(rpcResult.ResponseJSON) > 0 THEN MarshalJSON(rpcResult.ResponseJSON[1]) ELSE <<>>,
     DurationMs |-> rpcResult.DurationMs,
     Parsed |-> IF Len(rpcResult.ResponseJSON) > 0 /\ rpcResult.ResponseJSON[1].t = "object"
                THEN rpcResult.ResponseJSON[1] ELSE NilMap]

transportFailure(step) ==
    <<Failure(step.ID, Fld.F_none,
              IF runner = "http" THEN <<"HTTP request failed: %v">>
              ELSE <<"gRPC call failed: %v">>)>>

\* The failures of the assertions of a step on its StepResult: none when
\* the step has no assertions.
assertionFailures(step, sr, bodyOrder, headerOrder) ==
    IF step.Assertions = NoAssertions THEN <<>>
    ELSE IF runner = "http"
         THEN evaluateAssertions(step, sr, stepResults, bodyOrder, headerOrder)
         ELSE grpcEvaluateAssertions(step, sr, stepResults, bodyOrder)

BodyKeys(step) ==
    IF step.Assertions = NoAssertions THEN {} ELSE DOMAIN step.Assertions[1].Body

HeaderKeys(step) ==
    IF step.Assertions = NoAssertions THEN {} ELSE DOMAIN step.Assertions[1].Headers

Answered(step, request, sr) ==
    \E bodyOrder \in Orders(BodyKeys(step)), headerOrder \in Orders(HeaderKeys(step)) :
        Returned("answered", request.Path, request.Body, sr,
                 assertionFailures(step, sr, bodyOrder, headerOrder))

\* executeStep from the answer on: a transport error gives an empty
\* StepResult and one failure; otherwise the StepResult is built and the
\* assertions, if the step has any, are evaluated.
ReceiveResponse ==
    /\ sent
    /\ \E resp \in (IF runner = "http" THEN HTTPResponses ELSE CallRPC(calls[Len(calls)].Method)) :
         IF resp.err
         THEN Returned("transport_error", calls[Len(calls)].Path, calls[Len(calls)].Body,
                       EmptyStepResult(CurrentStep.ID), transportFailure(CurrentStep))
         ELSE Answered(CurrentStep, calls[Len(calls)],
                       IF runner = "http" THEN httpStepResult(CurrentStep, resp)
                       ELSE grpcStepResult(CurrentStep, resp))
    /\ sent' = FALSE
    /\ UNCHANGED <<pathInput, pathResult, waitInput, slept, tplInput, tplResult, matchInput, matchResult, evalInput, evalResult, runner, tc, calls, results, report>>

\* The end of runTest after the teardown loop: the verdict is set.
Return ==
    /\ pc = "return"
    /\ result' = [result EXCEPT !.Status = finalStatus(result.Failures)]
    /\ pc' = "done"
    /\ UNCHANGED <<pathInput, pathResult, waitInput, slept, tplInput, tplResult, matchInput, matchResult, evalInput, evalResult, runner, tc, idx, sent, stepResults, calls, executed, results, report>>

NoResult == [Status |-> "", Failures |-> <<>>, StepResults |-> <<>>]

Init ==
    /\ runner \in Runners
    /\ tc \in TestCases
    /\ pc = FirstPosition(tc).pc
    /\ idx = FirstPosition(tc).idx
    /\ sent = FALSE
    /\ stepResults = <<>>
    /\ result = NoResult
    /\ calls = <<>>
    /\ executed = <<>>
    /\ results = <<>>
    /\ report = <<>>
    /\ matchInput = <<>>
    /\ matchResult = <<>>
    /\ evalInput = <<>>
    /\ evalResult = <<>>
    /\ pathInput = <<>>
    /\ pathResult = <<>>
    /\ waitInput = <<>>
    /\ slept = <<>>
    /\ tplInput = <<>>
    /\ tplResult = <<>>

Next == WaitStep \/ SendRequest \/ RouteFailure \/ ReceiveResponse \/ Return

Spec == Init /\ [][Next]_vars

(***************************************************************************)
(* A suite run as far as buildReport is concerned: the results come in,    *)
(* one test after the other, and buildReport turns them into the report.   *)
(***************************************************************************)
Levels == 0..LastWalkLevel

NoTestCase == [Setup |-> <<>>, Steps |-> <<>>, Teardown |-> <<>>]

InitReport ==
    /\ runner \in Runners
    /\ tc = NoTestCase
    /\ pc = "done"
    /\ idx = 1
    /\ sent = FALSE
    /\ stepResults = <<>>
    /\ result = NoResult
    /\ calls = <<>>
    /\ executed = <<>>
    /\ results = <<>>
    /\ report = <<>>
    /\ matchInput = <<>>
    /\ matchResult = <<>>
    /\ evalInput = <<>>
    /\ evalResult = <<>>
    /\ pathInput = <<>>
    /\ pathResult = <<>>
    /\ waitInput = <<>>
    /\ slept = <<>>
    /\ tplInput = <<>>
    /\ tplResult = <<>>

\* One more test has run and its result joins the list.
AddResult ==
    /\ report = <<>>
    /\ Len(results) < MaxResults
    /\ \E lvl \in Levels, st \in Statuses :
          results' = Append(results, [Level |-> lvl, Status |-> st])
    /\ UNCHANGED <<pathInput, pathResult, waitInput, slept, tplInput, tplResult, matchInput, matchResult, evalInput, evalResult, runner, tc, pc, idx, sent, stepResults, result, calls, executed, report>>

BuildReport ==
    /\ report = <<>>
    /\ report' = <<IF runner = "http" THEN buildReport(results) ELSE grpcBuildReport(results)>>
    /\ UNCHANGED <<pathInput, pathResult, waitInput, slept, tplInput, tplResult, matchInput, matchResult, evalInput, evalResult, runner, tc, pc, idx, sent, stepResults, result, calls, executed, results>>

NextReport == AddResult \/ BuildReport

SpecReport == InitReport /\ [][NextReport]_vars

(***************************************************************************)
(* MatchAssertion as a state machine: a matcher and an actual value are    *)
(* drawn, and MatchAssertion is applied to them.                           *)
(***************************************************************************)
\* The largest number among the actual values.
MaxActual == 160

Approx(n) == Str(<<"~">> \o NatChars(n))

Matchers ==
    {Str(Kw.K_any), Str(Kw.K_absent), Str(Kw.K_exists), Approx(50), Approx(300),
     Obj(Kw.K_empty_op :> Bool(TRUE))}

Actuals ==
    {Nil, Str(<<>>), Str(Lit.V_j1), Bool(TRUE), Bool(FALSE), Arr(<<>>), Arr(<<Num(1)>>),
     Obj(<<>>), JobBody(Str(Lit.V_j1))}
    \cup {Num(n) : n \in 0..MaxActual}

InitMatch ==
    /\ runner = "http"
    /\ tc = NoTestCase
    /\ pc = "done"
    /\ idx = 1
    /\ sent = FALSE
    /\ stepResults = <<>>
    /\ result = NoResult
    /\ calls = <<>>
    /\ executed = <<>>
    /\ results = <<>>
    /\ report = <<>>
    /\ matchInput \in [matcher : Matchers, actual : Actuals]
    /\ matchResult = <<>>
    /\ evalInput = <<>>
    /\ evalResult = <<>>
    /\ pathInput = <<>>
    /\ pathResult = <<>>
    /\ waitInput = <<>>
    /\ slept = <<>>
    /\ tplInput = <<>>
    /\ tplResult = <<>>

\* MatchAssertion runs: matchResult holds TRUE when it returned nil.
Match ==
    /\ matchResult = <<>>
    /\ matchResult' = <<MatchAssertion(matchInput.matcher, matchInput.actual)>>
    /\ UNCHANGED <<pathInput, pathResult, waitInput, slept, tplInput, tplResult, runner, tc, pc, idx, sent, stepResults, result, calls, executed, results,
                   report, matchInput, evalInput, evalResult>>

SpecMatch == InitMatch /\ [][Match]_vars

(***************************************************************************)
(* evaluateAssertions as a state machine: a step with body assertions and  *)
(* a StepResult are drawn, and evaluateAssertions of the runner is applied *)
(* to them.                                                                *)
(***************************************************************************)
\* A step whose assertions are this body mapping and nothing else.
BodyStep(body) ==
    [StepDelete EXCEPT !.Assertions = <<[OnlyStatus(<<>>) EXCEPT !.Body = body]>>]

\* A step whose assertions ask for the id j1 in the body and for a JSON
\* content type in the headers.
HeaderStep ==
    [StepDelete EXCEPT !.Assertions =
        <<[OnlyStatus(<<>>) EXCEPT !.Body = (Lit.Path_job_id :> Str(Lit.V_j1)),
                                   !.Headers = (Lit.H_content_type :> Lit.V_json)]>>]

\* Body mappings: one entry whose path runs through a string or a null,
\* under three matchers; a $or of two alternatives beside an entry that asks
\* for the id j1; a $or of one alternative beside an entry that asks for
\* any id; two entries, one for the id j1 and one for a state; and the
\* step with a header assertion.
AssertedSteps ==
    {BodyStep((Lit.Path_job_id \o <<".", "x">>) :> Str(m)) : m \in {Kw.K_exists, Kw.K_absent, Kw.K_any}}
    \cup {BodyStep((Kw.K_or_op :> Arr(<<Obj(Lit.Path_job_id :> Str(Kw.K_exists)),
                                         Obj(Lit.Path_job_state :> Str(Kw.K_exists))>>))
                    @@ (Lit.Path_job_id :> Str(Lit.V_j1))),
           BodyStep((Kw.K_or_op :> Arr(<<Obj(Lit.Path_job_state :> Str(Kw.K_exists))>>))
                    @@ (Lit.Path_job_id :> Str(Kw.K_exists))),
           BodyStep((Lit.Path_job_id :> Str(Lit.V_j1)) @@ (Lit.Path_job_state :> Str(Kw.K_exists))),
           HeaderStep}

\* The StepResult of an answer 200 with this body: a JSON value, or none.
ResultOf(body) ==
    httpStepResult(StepDelete, [StatusCode |-> 200, Headers |-> <<>>, Body |-> body, DurationMs |-> 20])

\* StepResults with a JSON object for a body, with a JSON array, with no
\* body and with a body that is no JSON.
AssertedResults ==
    {ResultOf(<<v>>) : v \in {JobBody(Str(Lit.V_j1)), JobBody(Str(<<"j", "2">>)), JobBody(Nil),
                              Obj(<<>>), Arr(<<JobBody(Str(Lit.V_j1))>>)}}
    \cup {ResultOf(<<>>), [ResultOf(<<>>) EXCEPT !.Body = <<"o", "o", "p", "s">>]}

InitAssert ==
    /\ runner \in Runners
    /\ tc = NoTestCase
    /\ pc = "done"
    /\ idx = 1
    /\ sent = FALSE
    /\ stepResults = <<>>
    /\ result = NoResult
    /\ calls = <<>>
    /\ executed = <<>>
    /\ results = <<>>
    /\ report = <<>>
    /\ matchInput = <<>>
    /\ matchResult = <<>>
    /\ evalInput \in [step : AssertedSteps, sr : AssertedResults]
    /\ evalResult = <<>>
    /\ pathInput = <<>>
    /\ pathResult = <<>>
    /\ waitInput = <<>>
    /\ slept = <<>>
    /\ tplInput = <<>>
    /\ tplResult = <<>>

\* What evaluateAssertions of the runner returns for the drawn step and
\* StepResult when the ranges over the body mapping and over the header
\* mapping yield their keys in these orders.
evaluateWith(bodyOrder, headerOrder) ==
    IF runner = "http"
    THEN evaluateAssertions(evalInput.step, evalInput.sr, stepResults, bodyOrder, headerOrder)
    ELSE grpcEvaluateAssertions(evalInput.step, evalInput.sr, stepResults, bodyOrder)

\* evaluateAssertions runs, with the ranges over the two mappings in some
\* order.
Evaluate ==
    /\ evalResult = <<>>
    /\ \E bodyOrder \in Orders(BodyKeys(evalInput.step)),
          headerOrder \in Orders(HeaderKeys(evalInput.step)) :
          evalResult' = <<evaluateWith(bodyOrder, headerOrder)>>
    /\ UNCHANGED <<pathInput, pathResult, waitInput, slept, tplInput, tplResult, runner, tc, pc, idx, sent, stepResults, result, calls, executed, results,
                   report, matchInput, matchResult, evalInput>>

SpecAssert == InitAssert /\ [][Evaluate]_vars

(***************************************************************************)
(* ResolveJSONPath as a state machine: a path and a document are drawn,    *)
(* and ResolveJSONPath is applied to them.                                 *)
(***************************************************************************)
\* The paths: the root in its three spellings, fields that are there, null
\* or missing, an index in and out of range, a filter with and without a
\* match, and wildcards, one inside the other too.
PathLit ==
    [R_dollar |-> <<"$">>,
     R_dollar_dot |-> <<"$", ".">>,
     R_job |-> <<"$", ".", "j", "o", "b">>,
     R_job_id |-> <<"$", ".", "j", "o", "b", ".", "i", "d">>,
     R_id |-> <<"$", ".", "i", "d">>,
     R_missing |-> <<"$", ".", "m", "i", "s", "s", "i", "n", "g">>,
     R_missing_0 |-> <<"$", ".", "m", "i", "s", "s", "i", "n", "g", "[", "0", "]">>,
     R_job_id_x |-> <<"$", ".", "j", "o", "b", ".", "i", "d", ".", "x">>,
     R_job_0 |-> <<"$", ".", "j", "o", "b", "[", "0", "]">>,
     R_items_0 |-> <<"$", ".", "i", "t", "e", "m", "s", "[", "0", "]">>,
     R_items_9 |-> <<"$", ".", "i", "t", "e", "m", "s", "[", "9", "]">>,
     R_items_f_j2 |-> <<"$", ".", "i", "t", "e", "m", "s", "[", "?", "(", "@", ".", "i", "d", "=", "=", "'", "j", "2", "'", ")", "]">>,
     R_items_f_zz |-> <<"$", ".", "i", "t", "e", "m", "s", "[", "?", "(", "@", ".", "i", "d", "=", "=", "'", "z", "z", "'", ")", "]">>,
     R_items_f_j2_id |-> <<"$", ".", "i", "t", "e", "m", "s", "[", "?", "(", "@", ".", "i", "d", "=", "=", "'", "j", "2", "'", ")", "]", ".", "i", "d">>,
     R_items_f_zz_id |-> <<"$", ".", "i", "t", "e", "m", "s", "[", "?", "(", "@", ".", "i", "d", "=", "=", "'", "z", "z", "'", ")", "]", ".", "i", "d">>,
     R_items_all |-> <<"$", ".", "i", "t", "e", "m", "s", "[", "*", "]">>,
     R_items_all_id |-> <<"$", ".", "i", "t", "e", "m", "s", "[", "*", "]", ".", "i", "d">>,
     R_items_all_all |-> <<"$", ".", "i", "t", "e", "m", "s", "[", "*", "]", "[", "*", "]">>]

Paths == {<<>>} \cup {PathLit[n] : n \in DOMAIN PathLit}

\* A document that holds this array under the key items.
ItemsBody(items) == Obj(Lit.K_items :> Arr(items))

\* The documents: objects with a job, with a null id, with arrays of
\* objects, of arrays and of nothing under items, the empty object, and
\* roots that are no objects.
Documents ==
    {JobBody(Str(Lit.V_j1)),
     Obj((Lit.K_id :> Nil) @@ (Lit.K_job :> Nil)),
     Obj(<<>>),
     ItemsBody(<<Obj(Lit.K_id :> Str(Lit.V_j1)), Num(5), Obj(Lit.K_id :> Str(Lit.V_j2)),
                 Obj((Lit.K_id :> Str(Lit.V_j2)) @@ (Lit.K_job :> Nil)), Obj(Lit.K_job :> Nil)>>),
     ItemsBody(<<Arr(<<Num(1), Num(2)>>), Arr(<<Num(3)>>)>>),
     ItemsBody(<<>>),
     Arr(<<JobBody(Str(Lit.V_j1))>>),
     Str(Lit.V_j1),
     Nil}

InitPath ==
    /\ runner = "http"
    /\ tc = NoTestCase
    /\ pc = "done"
    /\ idx = 1
    /\ sent = FALSE
    /\ stepResults = <<>>
    /\ result = NoResult
    /\ calls = <<>>
    /\ executed = <<>>
    /\ results = <<>>
    /\ report = <<>>
    /\ matchInput = <<>>
    /\ matchResult = <<>>
    /\ evalInput = <<>>
    /\ evalResult = <<>>
    /\ pathInput \in [path : Paths, data : Documents]
    /\ pathResult = <<>>
    /\ waitInput = <<>>
    /\ slept = <<>>
    /\ tplInput = <<>>
    /\ tplResult = <<>>

\* ResolveJSONPath runs: pathResult holds the value and whether an error
\* was returned.
Resolve ==
    /\ pathResult = <<>>
    /\ pathResult' = <<ResolveJSONPath(pathInput.path, pathInput.data)>>
    /\ UNCHANGED <<runner, tc, pc, idx, sent, stepResults, result, calls, executed, results,
                   report, matchInput, matchResult, evalInput, evalResult, pathInput,
                   waitInput, slept, tplInput, tplResult>>

SpecPath == InitPath /\ [][Resolve]_vars

(***************************************************************************)
(* executeStep of a WAIT step as far as time goes: a step is drawn, and    *)
(* executeStep makes its calls of time.Sleep.                              *)
(***************************************************************************)
\* The longest delay_ms and duration_ms of a modelled WAIT step.
MaxWaitMs == 7

\* A WAIT step with these delay_ms and duration_ms; 0 stands for a field
\* that is absent too.
WaitWith(delayMs, durationMs) ==
    [StepWait EXCEPT !.DelayMs = delayMs, !.DurationMs = durationMs]

\* The calls of time.Sleep executeStep makes for a step up to the return of
\* its WAIT branch, in order, in milliseconds.
stepSleeps(step) ==
    (IF step.DelayMs > 0 THEN <<step.DelayMs>> ELSE <<>>)
    \o (IF IsWait(step)
        THEN LET waitMs == IF step.DurationMs <= 0 THEN step.DelayMs ELSE step.DurationMs
             IN IF waitMs > 0 THEN <<waitMs>> ELSE <<>>
        ELSE <<>>)

InitWait ==
    /\ runner \in Runners
    /\ tc = NoTestCase
    /\ pc = "done"
    /\ idx = 1
    /\ sent = FALSE
    /\ stepResults = <<>>
    /\ result = NoResult
    /\ calls = <<>>
    /\ executed = <<>>
    /\ results = <<>>
    /\ report = <<>>
    /\ matchInput = <<>>
    /\ matchResult = <<>>
    /\ evalInput = <<>>
    /\ evalResult = <<>>
    /\ pathInput = <<>>
    /\ pathResult = <<>>
    /\ waitInput \in {WaitWith(d, D) : d \in 0..MaxWaitMs, D \in 0..MaxWaitMs}
    /\ slept = <<>>
    /\ tplInput = <<>>
    /\ tplResult = <<>>

\* executeStep runs for the WAIT step: slept holds its sleeps.
Sleep ==
    /\ slept = <<>>
    /\ slept' = <<stepSleeps(waitInput)>>
    /\ UNCHANGED <<runner, tc, pc, idx, sent, stepResults, result, calls, executed, results,
                   report, matchInput, matchResult, evalInput, evalResult, pathInput,
                   pathResult, waitInput, tplInput, tplResult>>

SpecWait == InitWait /\ [][Sleep]_vars

(***************************************************************************)
(* A body matcher that is one template: the value of an earlier response   *)
(* and an actual value are drawn, the template is resolved against the     *)
(* earlier response and the resolved matcher applied to the actual value.  *)
(***************************************************************************)
\* The values the earlier step returned as the id of its job: plain
\* strings, strings that spell a matcher keyword or a number, and numbers.
TemplateValues ==
    {Str(Lit.V_j1), Str(Lit.V_j2), Str(Kw.K_any), Str(Kw.K_absent), Str(Kw.K_exists),
     Str(<<"7">>), Num(0), Num(1), Num(7), Num(42)}

TemplateActuals == TemplateValues \cup {Nil}

\* The matcher of StepGet: the one template {{steps.a.response.body.job.id}}.
TemplateMatcher == StepGet.Assertions[1].Body[Lit.Path_job_id]

\* runTest's map after step a was answered with this id.
ContextOf(v) == Lit.ID_a :> ResultOf(<<JobBody(v)>>)

InitTemplate ==
    /\ runner \in Runners
    /\ tc = NoTestCase
    /\ pc = "done"
    /\ idx = 1
    /\ sent = FALSE
    /\ stepResults = <<>>
    /\ result = NoResult
    /\ calls = <<>>
    /\ executed = <<>>
    /\ results = <<>>
    /\ report = <<>>
    /\ matchInput = <<>>
    /\ matchResult = <<>>
    /\ evalInput = <<>>
    /\ evalResult = <<>>
    /\ pathInput = <<>>
    /\ pathResult = <<>>
    /\ waitInput = <<>>
    /\ slept = <<>>
    /\ tplInput \in [v : TemplateValues, actual : TemplateActuals]
    /\ tplResult = <<>>

\* The body of the loop of evaluateAssertions for the entry: the matcher is
\* resolved and MatchAssertion applied; tplResult holds TRUE when it
\* returned nil.
MatchTemplate ==
    /\ tplResult = <<>>
    /\ tplResult' = <<MatchAssertion(resolveMatcherTemplates(TemplateMatcher, ContextOf(tplInput.v)),
                                     tplInput.actual)>>
    /\ UNCHANGED <<runner, tc, pc, idx, sent, stepResults, result, calls, executed, results,
                   report, matchInput, matchResult, evalInput, evalResult, pathInput,
                   pathResult, waitInput, slept, tplInput>>

SpecTemplate == InitTemplate /\ [][MatchTemplate]_vars

(***************************************************************************)
(* runTest under a user interrupt.  main installs no handler for SIGINT    *)
(* and hands no context to runTest, so the interrupt ends the process      *)
(* where it stands: with it go the call in flight, the TestResult under    *)
(* construction and the results gathered so far.                           *)
(***************************************************************************)
\* The interrupt arrives while runTest runs: the process is gone, nothing
\* of its state is written anywhere.
Interrupt ==
    /\ pc \in {"setup", "steps", "teardown", "return"}
    /\ pc' = "killed"
    /\ sent' = FALSE
    /\ UNCHANGED <<runner, tc, idx, stepResults, result, calls, executed, results, report,
                   matchInput, matchResult, evalInput, evalResult, pathInput, pathResult,
                   waitInput, slept, tplInput, tplResult>>

NextCancel == Next \/ Interrupt

SpecCancel == Init /\ [][NextCancel]_vars

(***************************************************************************)
(* Properties of runTest, checked under Spec.                              *)
(***************************************************************************)
Entries == 1..Len(executed)

\* The step entry j is about, and the context executeStep was given for it:
\* the StepResults of the entries before, a later one replacing an earlier
\* one of the same id.
StepOf(j) == PhaseSteps(tc, executed[j].phase)[executed[j].idx]

CtxBefore(j) ==
    LET acc[k \in 0..(j - 1)] ==
            IF k = 0 THEN <<>> ELSE (StepOf(k).ID :> executed[k].sr) @@ acc[k - 1]
    IN acc[j - 1]

SetupFailed == \E j \in Entries : executed[j].phase = "setup" /\ Len(executed[j].failures) > 0

MainFailed == \E j \in Entries : executed[j].phase = "steps" /\ Len(executed[j].failures) > 0

\* The failures executeStep returned for the main steps, in their order.
MainFailures ==
    LET acc[j \in 0..Len(executed)] ==
            IF j = 0 THEN <<>>
            ELSE IF executed[j].phase = "steps" THEN acc[j - 1] \o executed[j].failures
            ELSE acc[j - 1]
    IN acc[Len(executed)]

C2_SetupAbort ==
    SetupFailed =>
        /\ pc = "done"
        /\ \A j \in Entries :
              /\ executed[j].phase = "setup"
              /\ executed[j].idx = j
              /\ Len(executed[j].failures) > 0 => j = Len(executed)
        /\ \A k \in 1..Len(calls) :
              calls[k].phase = "setup" /\ calls[k].idx <= executed[Len(executed)].idx
        /\ ~sent
        /\ Len(result.Failures) = 1
        /\ result.Failures[1].StepID = StepOf(Len(executed)).ID

\* A setup step with several failing assertions has aborted a test that has
\* a later setup step or a main step.
C2_Witness ==
    /\ SetupFailed
    /\ Len(executed[Len(executed)].failures) > 1
    /\ Len(tc.Setup) + Len(tc.Steps) > Len(executed)

\* C3: when runTest has returned, every teardown step has been executed,
\* whatever the verdict.
C3_TeardownAlwaysRuns ==
    pc = "done" =>
        \A k \in 1..Len(tc.Teardown) :
            \E j \in Entries : executed[j].phase = "teardown" /\ executed[j].idx = k

\* C4: the failure list and the verdict of a run that reached its teardown
\* are those the main steps alone determine: what the teardown steps return
\* leaves no trace in them.
C4_TeardownSilent ==
    (pc \in {"teardown", "return", "done"} /\ ~SetupFailed) =>
        /\ result.Failures = MainFailures
        /\ pc = "done" => result.Status = (IF MainFailures = <<>> THEN "pass" ELSE "fail")

\* A run has returned pass although one teardown step failed in its
\* assertions and another in its transport call.
C4_Witness ==
    /\ pc = "done"
    /\ result.Status = "pass"
    /\ \E j \in Entries : /\ executed[j].phase = "teardown"
                          /\ executed[j].kind = "answered"
                          /\ Len(executed[j].failures) > 0
    /\ \E j \in Entries : /\ executed[j].phase = "teardown"
                          /\ executed[j].kind = "transport_error"

AllSteps == tc.Setup \o tc.Steps \o tc.Teardown

\* The number of the current step, counting setup, main and teardown steps.
StepNumber ==
    CASE pc = "setup" -> idx
      [] pc = "steps" -> Len(tc.Setup) + idx
      [] pc = "teardown" -> Len(tc.Setup) + Len(tc.Steps) + idx

\* C8: while step N resolves its templates and evaluates its assertions,
\* the context holds one entry for each of the steps 1..N-1 and none for
\* step N or a later step.
C8_ContextIsEarlierSteps ==
    pc \in {"setup", "steps", "teardown"} =>
        /\ Cardinality(DOMAIN stepResults) = StepNumber - 1
        /\ \A k \in 1..(StepNumber - 1) : AllSteps[k].ID \in DOMAIN stepResults
        /\ \A k \in StepNumber..Len(AllSteps) : AllSteps[k].ID \notin DOMAIN stepResults

\* The tokens of a text, as the scan from the left finds them.
RECURSIVE TokensFrom(_, _)
TokensAfter(text, i, m) ==
    IF m.ok
    THEN {[stepID |-> m.stepID, fieldPath |-> m.fieldPath,
           token |-> SubSeq(text, i, i + m.len - 1)]} \cup TokensFrom(text, i + m.len)
    ELSE TokensFrom(text, i + 1)

TokensFrom(text, i) ==
    IF i > Len(text) THEN {} ELSE TokensAfter(text, i, templateMatchAt(text, i))

\* The steps with this id that ran before entry j.
RanEarlier(id, j) == {k \in 1..(j - 1) : StepOf(k).ID = id}

LatestEarlier(id, j) == executed[CHOOSE k \in RanEarlier(id, j) : \A l \in RanEarlier(id, j) : l <= k]

NullOrError(r) == r.err \/ r.val = Nil

NoValueIn(fieldPath, sr) ==
    sr.Parsed = NilMap \/ NullOrError(ResolveJSONPath(fieldPath, sr.Parsed))

\* The cases in which a token must stay as it is: no step with its id ran
\* earlier, or that step has no parsed body, or the path does not resolve in
\* that body, or it resolves to null.
StaysVerbatim(tok, j) ==
    RanEarlier(tok.stepID, j) = {} \/ NoValueIn(tok.fieldPath, LatestEarlier(tok.stepID, j).sr)

BodyText(step) == IF Len(step.Body) > 0 THEN step.Body[1] ELSE <<>>

ResolvedBodyText(e) == IF Len(e.body) > 0 THEN e.body[1] ELSE <<>>

\* C9: a token of the path or the body of a step that must stay as it is
\* stands verbatim in the resolved text, the request of the step has gone
\* out, and an answered step returned no failure other than those of its
\* assertions (each of which names the asserted field).
C9_UnresolvedTokenVerbatim ==
    \A j \in Entries :
        ~IsWait(StepOf(j)) =>
            /\ \A tok \in TokensFrom(StepOf(j).Path, 1) :
                  StaysVerbatim(tok, j) =>
                      /\ Contains(executed[j].path, tok.token)
                      /\ executed[j].kind \in {"answered", "transport_error"}
            /\ \A tok \in TokensFrom(BodyText(StepOf(j)), 1) :
                  StaysVerbatim(tok, j) =>
                      /\ Contains(ResolvedBodyText(executed[j]), tok.token)
                      /\ executed[j].kind \in {"answered", "transport_error"}
            /\ executed[j].kind = "answered" /\ StepOf(j).Assertions = NoAssertions
                  => executed[j].failures = <<>>
            /\ executed[j].kind = "answered" =>
                  \A k \in 1..Len(executed[j].failures) :
                      executed[j].failures[k].Field # Fld.F_none

\* The GET step ran after a step a whose body has a null job id: the
\* reference to a, the one below it and the one to the step itself all
\* stand in the path of the request, which was answered.
C9_Witness ==
    \E j \in Entries :
        /\ StepOf(j) = StepGet
        /\ executed[j].kind = "answered"
        /\ RanEarlier(Lit.ID_a, j) # {}
        /\ LatestEarlier(Lit.ID_a, j).sr.Parsed = JobBody(Nil)
        /\ executed[j].path = StepGet.Path

\* The failures the assertions of a step have on a StepResult when every
\* assertion is evaluated, group after group.
AllAssertionFailures(step, sr, ctx, bodyOrder, headerOrder) ==
    statusFailures(step, step.Assertions[1], sr)
    \o statusInFailures(step, step.Assertions[1], sr)
    \o orFailures(step, step.Assertions[1], sr, ctx)
    \o FlatMap(bodyOrder, LAMBDA path : bodyEntryFailures(step, step.Assertions[1], sr, ctx, path))
    \o bodyAbsentFailures(step, step.Assertions[1], sr)
    \o headerFailures(step, step.Assertions[1], sr, headerOrder)
    \o timingFailures(step, step.Assertions[1], sr)
    \o bodyContainsFailures(step, step.Assertions[1], sr)

\* C10: for a step of the HTTP runner that was answered, the failures are
\* those of all its assertions, one for each failing predicate, in the
\* order status, status_in, body, body_absent, headers, timing_ms,
\* body_contains.
C10_AllAssertionsEvaluated ==
    \A j \in Entries :
        (/\ runner = "http"
         /\ executed[j].kind = "answered"
         /\ StepOf(j).Assertions # NoAssertions) =>
            \E bodyOrder \in Orders(BodyKeys(StepOf(j))),
               headerOrder \in Orders(HeaderKeys(StepOf(j))) :
                executed[j].failures =
                    AllAssertionFailures(StepOf(j), executed[j].sr, CtxBefore(j),
                                         bodyOrder, headerOrder)

(***************************************************************************)
(* Properties of buildReport, checked under SpecReport.                    *)
(***************************************************************************)
LevelTests(lvl) == {k \in 1..Len(results) : results[k].Level = lvl}

\* The rule for a level: it has a test and each of its tests passed.
EveryTestPassed(lvl) ==
    LevelTests(lvl) # {} /\ \A k \in LevelTests(lvl) : results[k].Status = "pass"

\* The levels at which the walk 0, 1, ... stops.
WalkStops == {lvl \in 0..LastWalkLevel : ~EveryTestPassed(lvl)}

\* C5: conformant_level is the last level before the first level of the
\* walk that has no test or is not all-pass, and -1 if that is level 0.
C5_ConformantLevelWalk ==
    report # <<>> =>
        report[1].ConformantLevel =
            IF WalkStops = {} THEN LastWalkLevel
            ELSE (CHOOSE lvl \in WalkStops : \A other \in WalkStops : lvl <= other) - 1

\* C6: all_pass of every level of the breakdown is true exactly if the
\* level has a test and each of its tests passed.
C6_AllPassRule ==
    report # <<>> =>
        \A lvl \in DOMAIN report[1].ByLevel :
            report[1].ByLevel[lvl].AllPass <=> EveryTestPassed(lvl)

\* C7: conformant is true exactly if no test failed or errored and there
\* is at least one test.
C7_Conformant ==
    report # <<>> =>
        (report[1].Conformant <=>
            /\ Len(results) > 0
            /\ \A k \in 1..Len(results) : results[k].Status \notin {"fail", "error"})

(***************************************************************************)
(* Properties of executeStep for the ASSERT and WAIT actions, for test     *)
(* cases with repeated step ids and for failed transport calls, checked    *)
(* under Spec.                                                             *)
(***************************************************************************)
IsAssert(step) == step.Action = "ASSERT"

\* C17: no transport call is made for an ASSERT step, and such a step
\* returns what the evaluation of its assertions gives: it ends neither as a
\* failed call nor as a request that could not be routed.
C17_AssertMakesNoCall ==
    /\ \A k \in 1..Len(calls) : calls[k].Action # "ASSERT"
    /\ \A j \in Entries :
          IsAssert(StepOf(j)) => executed[j].kind \notin {"transport_error", "unroutable"}

\* The transport calls made for the step of entry j.
CallsOf(j) ==
    {k \in 1..Len(calls) : calls[k].phase = executed[j].phase /\ calls[k].idx = executed[j].idx}

\* C18: a WAIT step makes no transport call, returns no failure whatever
\* its assertions are, and its StepResult is empty: status 0, no body, no
\* parsed body; once it has returned, that result stands under its id.
C18_WaitIsEmpty ==
    /\ \A j \in Entries :
          IsWait(StepOf(j)) =>
              /\ CallsOf(j) = {}
              /\ executed[j].failures = <<>>
              /\ executed[j].sr.StatusCode = 0
              /\ executed[j].sr.Body = <<>>
              /\ executed[j].sr.Parsed = NilMap
    /\ (executed # <<>> /\ IsWait(StepOf(Len(executed)))) =>
          /\ StepOf(Len(executed)).ID \in DOMAIN stepResults
          /\ stepResults[StepOf(Len(executed)).ID] = executed[Len(executed)].sr

\* A WAIT step whose assertion asks for status 200 has returned, after a
\* step of the same id that was answered with a JSON object.
C18_Witness ==
    /\ Len(executed) = 2
    /\ StepOf(1) = StepCreate
    /\ executed[1].sr.Parsed # NilMap
    /\ StepOf(2) = StepWait
    /\ StepWait.Assertions[1].Status = <<Num(200)>>
    /\ stepResults[Lit.ID_a].Parsed = NilMap

\* Two steps of the test case bear the same id.
HasDuplicateIDs(t) ==
    LET all == t.Setup \o t.Steps \o t.Teardown
    IN \E j, k \in 1..Len(all) : j < k /\ all[j].ID = all[k].ID

\* C19: of a test case with a repeated step id no step is executed and no
\* transport call is made; its verdict is error, and no stored StepResult
\* is replaced by that of a later step.
C19_DuplicateIDsRejected ==
    HasDuplicateIDs(tc) =>
        /\ executed = <<>>
        /\ calls = <<>>
        /\ pc = "done" => result.Status = "error"

\* The transport call of the step of entry j failed: client.Do or CallRPC
\* returned an error, or the RPC did and grpcError made the result of it.
TransportFailed(j) ==
    \/ executed[j].kind = "transport_error"
    \/ /\ runner = "grpc"
       /\ executed[j].kind = "answered"
       /\ executed[j].sr.StatusCode >= 400

\* C20: the StepResult of a step whose transport call failed holds a
\* mapped status and an error body, and the failures of the step are those
\* of its assertions: none when it has no assertions.
C20_TransportFailureIsAResult ==
    \A j \in Entries :
        TransportFailed(j) =>
            /\ executed[j].sr.StatusCode # 0
            /\ executed[j].sr.Body # <<>>
            /\ StepOf(j).Assertions = NoAssertions => executed[j].failures = <<>>
            /\ \A k \in 1..Len(executed[j].failures) :
                  executed[j].failures[k].Field # Fld.F_none

(***************************************************************************)
(* Properties of MatchAssertion, checked under SpecMatch.                  *)
(***************************************************************************)
Matched == matchResult # <<>> /\ matchResult[1]

\* C13: the matcher "any" succeeds exactly on the values that are not null.
C13_AnyIffNonNull ==
    (matchResult # <<>> /\ matchInput.matcher = Str(Kw.K_any)) =>
        (Matched <=> matchInput.actual # Nil)

C15_ApproxHasFloor ==
    (matchResult # <<>> /\ matchInput.matcher.t = "string" /\ approxPattern(matchInput.matcher.s)) =>
        (Matched <=>
            /\ matchInput.actual.t = "number"
            /\ AssertApproximateMs(DigitsVal(Tail(matchInput.matcher.s), 0), matchInput.actual.n))

\* The values the $empty matcher is to accept: null and the empty string,
\* array and object.
IsEmptyValue(v) == v \in {Nil, Str(<<>>), Arr(<<>>), Obj(<<>>)}

\* C16: the matcher {"$empty": true} succeeds exactly on an empty or null
\* value.
C16_EmptyIffEmpty ==
    (matchResult # <<>> /\ matchInput.matcher = Obj(Kw.K_empty_op :> Bool(TRUE))) =>
        (Matched <=> IsEmptyValue(matchInput.actual))

(***************************************************************************)
(* Properties of the body assertions, checked under SpecAssert.            *)
(***************************************************************************)
AssertedBody == evalInput.step.Assertions[1].Body

\* The entries of the body mapping that are paths, and the failures
\* recorded under a field.
PathEntries == {p \in DOMAIN AssertedBody : HasPrefix(p, <<"$", ".">>)}

FailuresAt(field) == {k \in 1..Len(evalResult[1]) : evalResult[1][k].Field = field}

\* The path does not resolve against the response: the body of the
\* response is no JSON object, or the resolution of the path in it fails.
DoesNotResolve(p) ==
    evalInput.sr.Parsed = NilMap \/ ResolveJSONPath(p, evalInput.sr.Parsed).err

\* C11: an entry of the body mapping whose path does not resolve against
\* the response has exactly one failure if its matcher is not "absent" and
\* none if it is, whatever the body of the response is.
C11_UnresolvedPathOneFailure ==
    evalResult # <<>> =>
        \A p \in PathEntries :
            DoesNotResolve(p) =>
                Cardinality(FailuresAt(p)) = (IF AssertedBody[p] = Str(Kw.K_absent) THEN 0 ELSE 1)

\* An entry passes when its path resolves to a value its matcher accepts,
\* or fails to resolve under the matcher "absent".
EntryPasses(p, m) ==
    LET r == ResolveJSONPath(p, evalInput.sr.Parsed)
    IN IF r.err THEN m = Str(Kw.K_absent) ELSE MatchAssertion(m, r.val)

SomeAlternativePasses ==
    \E k \in 1..Len(AssertedBody[Kw.K_or_op].a) :
        \A p \in DOMAIN AssertedBody[Kw.K_or_op].a[k].o :
            LET r == ResolveJSONPath(p, evalInput.sr.Parsed)
            IN ~r.err /\ MatchAssertion(AssertedBody[Kw.K_or_op].a[k].o[p], r.val)

\* C12: for a body mapping with the key $or, the $or failure is recorded
\* exactly if no alternative has every entry passing, and every path entry
\* beside the $or has a failure of its own exactly if it fails.
C12_OrAndSiblings ==
    (evalResult # <<>> /\ Kw.K_or_op \in DOMAIN AssertedBody) =>
        /\ FailuresAt(Kw.K_or_op) # {} <=> ~SomeAlternativePasses
        /\ \A p \in PathEntries : FailuresAt(p) # {} <=> ~EntryPasses(p, AssertedBody[p])


(***************************************************************************)
(* Properties of ResolveJSONPath, checked under SpecPath.                  *)
(***************************************************************************)
Resolved == pathResult # <<>>

\* The path of the state is this one, and ResolveJSONPath has run.
ResolvedAt(path) == Resolved /\ pathInput.path = path

\* The array under items, if the document is an object that holds one.
HasItems == IsMap(pathInput.data) /\ MapHas(pathInput.data, Lit.K_items)
               /\ IsArr(pathInput.data.o[Lit.K_items])

Items == pathInput.data.o[Lit.K_items].a

\* C21: the paths $. and $ and the empty path resolve to the document
\* itself, whatever the document is.
C21_RootPaths ==
    (Resolved /\ pathInput.path \in {<<>>, PathLit.R_dollar_dot, PathLit.R_dollar}) =>
        pathResult[1] = ResOk(pathInput.data)

\* C22: a segment that names a field the object does not hold resolves to
\* null without an error, with a bracket behind the name or without; a
\* field of a value that is no object, an index into a value that is no
\* array and an index beyond the end of the array are errors.
C22_SoftMissingHardMismatch ==
    /\ (Resolved /\ pathInput.path \in {PathLit.R_missing, PathLit.R_missing_0}
          /\ IsMap(pathInput.data)) =>
           pathResult[1] = ResOk(Nil)
    /\ (Resolved /\ pathInput.path \in {PathLit.R_job, PathLit.R_id, PathLit.R_missing}
          /\ ~IsMap(pathInput.data)) =>
           pathResult[1].err
    /\ (ResolvedAt(PathLit.R_job_id_x) /\ pathInput.data = JobBody(Str(Lit.V_j1))) =>
           pathResult[1].err
    /\ (ResolvedAt(PathLit.R_job_0) /\ pathInput.data = JobBody(Str(Lit.V_j1))) =>
           pathResult[1].err
    /\ (ResolvedAt(PathLit.R_items_9) /\ HasItems) => pathResult[1].err
    /\ (ResolvedAt(PathLit.R_items_0) /\ HasItems) =>
           IF Items = <<>> THEN pathResult[1].err ELSE pathResult[1] = ResOk(Items[1])

\* The first element of the array that is an object whose id is this
\* string; null when there is none.
FirstWithID(items, id) ==
    LET hits == {k \in 1..Len(items) : IsMap(items[k]) /\ MapHas(items[k], Lit.K_id)
                                         /\ items[k].o[Lit.K_id] = Str(id)}
    IN IF hits = {} THEN Nil ELSE items[Min(hits)]

\* C23: a filter on the id resolves to the first element with that id and
\* to null when no element has it; a field behind the filter is the field
\* of that element, and null when no element has the id.
C23_FilterFirstOrNull ==
    HasItems =>
        /\ ResolvedAt(PathLit.R_items_f_j2) => pathResult[1] = ResOk(FirstWithID(Items, Lit.V_j2))
        /\ ResolvedAt(PathLit.R_items_f_zz) => pathResult[1] = ResOk(Nil)
        /\ ResolvedAt(PathLit.R_items_f_j2_id) =>
               pathResult[1] = ResOk(MapGet(FirstWithID(Items, Lit.V_j2), Lit.K_id))
        /\ ResolvedAt(PathLit.R_items_f_zz_id) => pathResult[1] = ResOk(Nil)

\* The ids of the elements that are objects with an id, in element order.
RECURSIVE IDsOf(_)
IDsOf(items) ==
    IF items = <<>> THEN <<>>
    ELSE (IF IsMap(items[1]) /\ MapGet(items[1], Lit.K_id) # Nil
          THEN <<items[1].o[Lit.K_id]>> ELSE <<>>) \o IDsOf(Tail(items))

\* The elements of the elements that are arrays, in element order.
RECURSIVE Flattened(_)
Flattened(items) ==
    IF items = <<>> THEN <<>>
    ELSE (IF IsArr(items[1]) THEN items[1].a ELSE <<>>) \o Flattened(Tail(items))

\* C24: a wildcard resolves to the array of what the rest of the path
\* yields for each element, in element order and without the elements the
\* rest does not resolve for; with a second wildcard behind it, to the one
\* flat array of the elements of the elements.
C24_WildcardFlat ==
    HasItems =>
        /\ ResolvedAt(PathLit.R_items_all) =>
               (~pathResult[1].err /\ IsArr(pathResult[1].val) /\ pathResult[1].val.a = Items)
        /\ ResolvedAt(PathLit.R_items_all_id) =>
               (~pathResult[1].err /\ IsArr(pathResult[1].val)
                  /\ pathResult[1].val.a = IDsOf(Items))
        /\ ResolvedAt(PathLit.R_items_all_all) =>
               (~pathResult[1].err /\ IsArr(pathResult[1].val)
                  /\ pathResult[1].val.a = Flattened(Items))

\* The one key of a path $.key of the model.
KeyOf(path) == Drop(path, 2)

\* C30: for an object and a key, "absent" accepts what the path $.key
\* resolves to exactly if the object matcher {key: "absent"} accepts the
\* object, also when the object holds the key with the value null.
C30_AbsentByPathOrByObject ==
    (Resolved /\ pathInput.path \in {PathLit.R_id, PathLit.R_job, PathLit.R_missing}
       /\ IsMap(pathInput.data)) =>
        ((~pathResult[1].err /\ MatchAssertion(Str(Kw.K_absent), pathResult[1].val))
           <=> MatchAssertion(Obj(KeyOf(pathInput.path) :> Str(Kw.K_absent)), pathInput.data))


(***************************************************************************)
(* Properties of evaluateAssertions as a whole, checked under SpecAssert.  *)
(***************************************************************************)
BodyOrders == Orders(BodyKeys(evalInput.step))

HeaderOrders == Orders(HeaderKeys(evalInput.step))

\* C25: the failures evaluateAssertions returns for a step and a StepResult
\* are the same list on every run, in the same order and with the same
\* first failure, whatever order the ranges over the mappings take.
C25_SameFailuresEveryRun ==
    evalResult # <<>> =>
        \A bodyOrder \in BodyOrders, headerOrder \in HeaderOrders :
            evalResult[1] = evaluateWith(bodyOrder, headerOrder)

\* C27: for the same step and the same StepResult, evaluateAssertions of
\* the HTTP runner and evaluateAssertions of the gRPC runner return the same
\* failures, the ranges over the body mapping taking the same order.
C27_RunnersAgree ==
    evalResult # <<>> =>
        \A bodyOrder \in BodyOrders, headerOrder \in HeaderOrders :
            evaluateAssertions(evalInput.step, evalInput.sr, stepResults, bodyOrder, headerOrder)
              = grpcEvaluateAssertions(evalInput.step, evalInput.sr, stepResults, bodyOrder)


(***************************************************************************)
(* Properties of the WAIT step, checked under SpecWait.                    *)
(***************************************************************************)
RECURSIVE SumOf(_)
SumOf(ms) == IF ms = <<>> THEN 0 ELSE ms[1] + SumOf(Tail(ms))

\* The time the test has been suspended for, once executeStep has run.
Suspended == SumOf(slept[1])

\* C29: a WAIT step with a duration_ms D > 0 and no delay_ms suspends the
\* test for D milliseconds, and a WAIT step with a delay_ms d > 0 and no
\* duration_ms suspends it for d milliseconds in all.
C29_WaitSleepsOnce ==
    slept # <<>> =>
        /\ (waitInput.DurationMs > 0 /\ waitInput.DelayMs = 0) =>
               Suspended = waitInput.DurationMs
        /\ (waitInput.DurationMs = 0 /\ waitInput.DelayMs > 0) =>
               Suspended = waitInput.DelayMs


(***************************************************************************)
(* Properties of a template matcher, checked under SpecTemplate.           *)
(***************************************************************************)
\* C28: a body matcher that is one template for a value of an earlier
\* response accepts an actual value exactly if it equals that value.
C28_TemplateMatcherIsEquality ==
    tplResult # <<>> => (tplResult[1] <=> tplInput.actual = tplInput.v)


(***************************************************************************)
(* Properties of the interrupt, checked under SpecCancel.                  *)
(***************************************************************************)
\* C26: an interrupt that arrives while the transport call of a step is in
\* flight aborts the call and ends the test with the verdict error.
C26_InterruptGivesError ==
    [][(sent /\ pc' = "killed") => (~sent' /\ result'.Status = "error")]_vars

=============================================================================
